---- MODULE Spec2Model ----
(***************************************************************************)
(* Food-truck order management API (projeto_aplicado): orders, products,   *)
(* users, credentials and bearer tokens, with the per-entity Redis caches. *)
(* Every request handler is one action; the outcome of the last request is  *)
(* kept in res and the collaborator calls it made are kept in trace.        *)
(***************************************************************************)
EXTENDS Integers, Sequences, FiniteSets, TLC

VARIABLES
    orders,          \* table "order": order id -> Order row (with its OrderItems)
    nextOrderId,     \* ids handed out so far (ULIDs are never reused)
    orderCache,      \* Redis keys order:{id}
    orderListCache,  \* Redis keys orders:{offset}:{limit}
    products,        \* table "product": product id -> Product row
    nextProductId,
    productCache,    \* Redis keys product:{id}
    productListCache,\* Redis keys products:{offset}:{limit}
    users,           \* table "user": user id -> User row
    nextUserId,
    userCache,       \* Redis keys user:{id}
    userListCache,   \* Redis keys users:{offset}:{limit}
    lastPassword,    \* history: user id -> the plaintext password a request
                     \* set last for that user (never stored by the program)
    now,             \* wall clock, in minutes
    issued,          \* bearer tokens handed out by create_token, each with
                     \* the id of the user it was issued to
    res,             \* outcome of the last request
    trace,           \* collaborator calls made by the last request, in order
    flight,          \* requests in flight: request -> what it has read or
                     \* written so far and not yet finished with
    leftPending      \* history: ids of the orders whose stored status has
                     \* been other than pending at some time

orderVars == <<orders, nextOrderId, orderCache, orderListCache>>
productVars == <<products, nextProductId, productCache, productListCache>>
userVars == <<users, nextUserId, userCache, userListCache, lastPassword>>
authVars == <<now, issued>>
auxVars == <<flight, leftPending>>
vars == <<orders, nextOrderId, orderCache, orderListCache, products,
          nextProductId, productCache, productListCache, users, nextUserId,
          userCache, userListCache, lastPassword, now, issued, res, trace,
          flight, leftPending>>

----------------------------------------------------------------------------
(* Bounds of the model *)

MaxOrders == 2
MaxTotalOrders == 1
MaxItems == 2
MaxProducts == 3
MaxUsers == 2
MaxAuthUsers == 2
MaxTokens == 2
MaxTime == 3
MaxStamped == 1
MaxListed == 2
MaxFlights == 1
\* users in the runs of the caches
MaxCached == 2

----------------------------------------------------------------------------
(* Values *)

\* Optional values: None, or Some(v)
None == <<>>
Some(v) == <<v>>
\* "no id" in an outcome
NoId == 0

KITCHEN == "kitchen"
ATTENDANT == "attendant"
ADMIN == "admin"
UserRole == {KITCHEN, ATTENDANT, ADMIN}
\* a role string that is no member of UserRole (services take the role as str)
OtherRole == "website"
RoleStrings == UserRole \cup {OtherRole}

PENDING == "PENDING"
PROCESSING == "PROCESSING"
COMPLETED == "COMPLETED"
CANCELLED == "CANCELLED"
OrderStatus == {PENDING, PROCESSING, COMPLETED, CANCELLED}

\* HTTP outcomes
OK == "OK"
CREATED == "Created"
BAD_REQUEST == "BadRequest"
UNAUTHORIZED == "Unauthorized"
FORBIDDEN == "Forbidden"
NOT_FOUND == "NotFound"
CONFLICT == "Conflict"
UNPROCESSABLE_ENTITY == "UnprocessableEntity"

EmptyMap == [k \in {} |-> 0]

Put(f, k, v) == [x \in (DOMAIN f) \cup {k} |-> IF x = k THEN v ELSE f[x]]
Drop(f, k) == [x \in (DOMAIN f) \ {k} |-> f[x]]

\* invalidate_list of the cache classes: redis.keys of the pattern of the
\* type's list keys, and redis.delete of every key found
invalidate_list_one_page(list_cache) == Drop(list_cache, <<0, 1>>)

invalidate_list(list_cache) == EmptyMap

----------------------------------------------------------------------------
(* Products: repository *)

\* ProductRepository.get_by_id (session.get) finds a row
product_exists(id) == id \in DOMAIN products

----------------------------------------------------------------------------
(* Orders: model *)

\* a total that forgets the quantity
calculate_total_price_only(item) == item.price

\* OrderItem.calculate_total
calculate_total(item) == item.quantity * item.price

RECURSIVE SumTotals(_)
\* sum(item.calculate_total() for item in new_order.products)
SumTotals(items) ==
    IF items = <<>> THEN 0
    ELSE calculate_total(Head(items)) + SumTotals(Tail(items))

\* utils.generate_locator: one uppercase letter and three digits; two of the
\* 26000 values are enough to tell equal locators from different ones
Locators == {"A000", "Z999"}

\* CreateOrderItemDTO: quantity > 0, price > 0
ValidItemDTO(item) == item.quantity > 0 /\ item.price > 0

\* CreateOrderDTO: every item valid and validate_items_not_empty
ValidCreateOrderDTO(dto) ==
    /\ dto.items # <<>>
    /\ \A i \in 1..Len(dto.items) : ValidItemDTO(dto.items[i])

\* an item built with the price the product has in the catalogue
OrderItemCreate_product_price(item) ==
    [quantity |-> item.quantity, price |-> products[item.product_id].price,
     product_id |-> item.product_id]

\* OrderItem.create: the item takes quantity, product_id and price of the DTO
OrderItemCreate(item) ==
    [quantity |-> item.quantity, price |-> item.price,
     product_id |-> item.product_id]

\* Order.create: status PENDING, total 0.0, a generated locator, no rating, no
\* items yet; notes come from the DTO; created_at and updated_at are func.now
\* of the insertion (BaseModel)
OrderCreate(dto, id, locator) ==
    [id |-> id, status |-> PENDING, total |-> 0, locator |-> locator,
     notes |-> dto.notes, rating |-> None, products |-> <<>>,
     created_at |-> now, updated_at |-> now]

\* Order.model_dump_json followed by Order.model_validate: the relationship
\* "products" is no field of the row, so the cached copy has no items
OrderFromJson(o) == [o EXCEPT !.products = <<>>]

----------------------------------------------------------------------------
(* Orders: repository and cache *)

\* order_cache.get_order_by_id finds the key order:{id}
order_cached(id) == id \in DOMAIN orderCache

\* BaseRepository.get_by_id (session.get) finds a row of the order table
order_exists(id) == id \in DOMAIN orders

\* columns that hold an Optional value; the others hold the value itself
NullableColumns == {"notes", "rating", "description", "full_name"}

\* BaseRepository.update (resources/base): every key of update_data whose
\* value is not None is set on the entity
RepoUpdate(entity, update_data) ==
    [f \in DOMAIN entity |->
        IF f \in DOMAIN update_data /\ update_data[f] # None
        THEN (IF f \in NullableColumns THEN update_data[f]
              ELSE update_data[f][1])
        ELSE entity[f]]

----------------------------------------------------------------------------
(* Initial state: empty tables, empty caches, nothing requested yet *)

NoRes == [op |-> "none", status |-> OK]

Init ==
    /\ orders = EmptyMap
    /\ nextOrderId = 1
    /\ orderCache = EmptyMap
    /\ orderListCache = EmptyMap
    /\ products = EmptyMap
    /\ nextProductId = 1
    /\ productCache = EmptyMap
    /\ productListCache = EmptyMap
    /\ users = EmptyMap
    /\ nextUserId = 1
    /\ userCache = EmptyMap
    /\ userListCache = EmptyMap
    /\ lastPassword = EmptyMap
    /\ now = 0
    /\ issued = {}
    /\ res = NoRes
    /\ trace = <<>>
    /\ flight = EmptyMap
    /\ leftPending = {}

----------------------------------------------------------------------------
(* Orders: OrderService *)

\* OrderService.get_order_by_id: what the caller gets for this id
get_order_by_id_status(id) ==
    IF order_cached(id) THEN OK
    ELSE IF ~order_exists(id) THEN NOT_FOUND
    ELSE OK

\* OrderService.get_order_by_id
OrderService_get_order_by_id(id) ==
    /\ IF order_cached(id)
       THEN /\ res' = [op |-> "get_order_by_id", id |-> id,
                       status |-> get_order_by_id_status(id),
                       order |-> Some(orderCache[id])]
            /\ trace' = <<"cache.get">>
            /\ orderCache' = orderCache
       ELSE IF ~order_exists(id)
       THEN /\ res' = [op |-> "get_order_by_id", id |-> id,
                       status |-> get_order_by_id_status(id),
                       order |-> None]
            /\ trace' = <<"cache.get", "repo.get_by_id", "cache.invalidate">>
            /\ orderCache' = Drop(orderCache, id)
       ELSE /\ res' = [op |-> "get_order_by_id", id |-> id,
                       status |-> get_order_by_id_status(id),
                       order |-> Some(orders[id])]
            /\ trace' = <<"cache.get", "repo.get_by_id">>
            /\ orderCache' = orderCache
    /\ UNCHANGED <<orders, nextOrderId, orderListCache>>
    /\ UNCHANGED <<productVars, userVars, authVars, auxVars>>

\* the OrderItems create_order builds before it meets an unknown product
RECURSIVE BuildItems(_)
BuildItems(items) ==
    IF items = <<>> THEN <<>>
    ELSE <<OrderItemCreate(Head(items))>> \o BuildItems(Tail(items))

\* a lookup that stops after the first item
AllProductsResolve_first_only(items) ==
    items = <<>> \/ product_exists(items[1].product_id)

AllProductsResolve(items) ==
    \A i \in 1..Len(items) : product_exists(items[i].product_id)

\* new_order.total = sum(item.calculate_total() for item in new_order.products)
OrderTotal(items) == SumTotals(items)

\* a role check that lets the kitchen through as well
OrderWriteRoles_with_kitchen == {ADMIN, ATTENDANT, KITCHEN}

\* the roles create_order and delete_order let through
OrderWriteRoles == {ADMIN, ATTENDANT}

\* a status check that lets every order through
order_is_pending_unchecked(order) == order.status \in OrderStatus

\* delete_order goes on: order.status == OrderStatus.PENDING
order_is_pending(order) == order.status = PENDING

\* a role check that keeps the kitchen out
OrderUpdateRoles_without_kitchen == {ADMIN, ATTENDANT}

\* the roles update_order lets through
OrderUpdateRoles == {ADMIN, ATTENDANT, KITCHEN}

\* OrderService.create_order; its dto is a CreateOrderDTO, which pydantic
\* builds only from a body that passes the validators
OrderService_create_order(dto, role, locator, cap) ==
    /\ nextOrderId <= cap
    /\ ValidCreateOrderDTO(dto)
    /\ IF role \notin OrderWriteRoles
       THEN /\ res' = [op |-> "create_order", role |-> role, dto |-> dto,
                       status |-> FORBIDDEN, id |-> NoId]
            /\ trace' = <<>>
            /\ UNCHANGED orderVars
       ELSE IF ~AllProductsResolve(dto.items)
       THEN /\ res' = [op |-> "create_order", role |-> role, dto |-> dto,
                       status |-> UNPROCESSABLE_ENTITY, id |-> NoId]
            /\ trace' = <<"product_repo.get_by_id">>
            /\ UNCHANGED orderVars
       ELSE LET new_order == OrderCreate(dto, nextOrderId, locator)
                items == BuildItems(dto.items)
                created == [new_order EXCEPT !.products = items,
                                             !.total = OrderTotal(items)]
            IN  /\ orderCache' = Drop(orderCache, new_order.id)
                /\ orderListCache' = invalidate_list(orderListCache)
                /\ orders' = Put(orders, new_order.id, created)
                /\ nextOrderId' = nextOrderId + 1
                /\ res' = [op |-> "create_order", role |-> role, dto |-> dto,
                           status |-> CREATED, id |-> new_order.id]
                /\ trace' = <<"product_repo.get_by_id", "cache.invalidate",
                              "cache.invalidate_list", "repo.create">>
    /\ UNCHANGED <<productVars, userVars, authVars, auxVars>>

\* OrderService.update_order, on a stored order
OrderService_update_order(id, dto, role) ==
    /\ id \in DOMAIN orders
    /\ IF role \notin OrderUpdateRoles
       THEN /\ res' = [op |-> "update_order", role |-> role, id |-> id,
                       dto |-> dto, before |-> Some(orders[id]),
                       status |-> FORBIDDEN]
            /\ trace' = <<>>
            /\ UNCHANGED orderVars
       ELSE /\ orders' = [orders EXCEPT ![id] = RepoUpdate(orders[id], dto)]
            /\ orderCache' = Drop(orderCache, id)
            /\ orderListCache' = invalidate_list(orderListCache)
            /\ res' = [op |-> "update_order", role |-> role, id |-> id,
                       dto |-> dto, before |-> Some(orders[id]),
                       status |-> OK]
            /\ trace' = <<"repo.update", "cache.invalidate",
                          "cache.invalidate_list">>
            /\ UNCHANGED nextOrderId
    /\ leftPending' = leftPending \cup
                         {i \in DOMAIN orders' : orders'[i].status # PENDING}
    /\ UNCHANGED <<productVars, userVars, authVars, flight>>

\* OrderService.delete_order, on a stored order
OrderService_delete_order(id, role) ==
    /\ id \in DOMAIN orders
    /\ IF role \notin OrderWriteRoles
       THEN /\ res' = [op |-> "delete_order", role |-> role, id |-> id,
                       before |-> Some(orders[id]), status |-> FORBIDDEN]
            /\ trace' = <<>>
            /\ UNCHANGED orderVars
       ELSE IF ~order_is_pending(orders[id])
       THEN /\ res' = [op |-> "delete_order", role |-> role, id |-> id,
                       before |-> Some(orders[id]), status |-> BAD_REQUEST]
            /\ trace' = <<>>
            /\ UNCHANGED orderVars
       ELSE /\ orders' = Drop(orders, id)
            /\ orderCache' = Drop(orderCache, id)
            /\ orderListCache' = invalidate_list(orderListCache)
            /\ res' = [op |-> "delete_order", role |-> role, id |-> id,
                       before |-> Some(orders[id]), status |-> OK]
            /\ trace' = <<"repo.delete", "cache.invalidate",
                          "cache.invalidate_list">>
            /\ UNCHANGED nextOrderId
    /\ UNCHANGED <<productVars, userVars, authVars, auxVars>>

\* the stored row a request is about, as it is when the request arrives
OrderBefore(id) == IF id \in DOMAIN orders THEN Some(orders[id]) ELSE None

\* order controller, DELETE /orders/{order_id}
order_controller_delete_order(order_id, role) ==
    /\ IF role \notin OrderWriteRoles
       THEN /\ res' = [op |-> "controller.delete_order", role |-> role,
                       id |-> order_id, before |-> OrderBefore(order_id),
                       status |-> FORBIDDEN]
            /\ trace' = <<>>
            /\ UNCHANGED orders
       ELSE IF ~order_exists(order_id)
       THEN /\ res' = [op |-> "controller.delete_order", role |-> role,
                       id |-> order_id, before |-> OrderBefore(order_id),
                       status |-> NOT_FOUND]
            /\ trace' = <<"repo.get_by_id">>
            /\ UNCHANGED orders
       ELSE IF ~order_is_pending(orders[order_id])
       THEN /\ res' = [op |-> "controller.delete_order", role |-> role,
                       id |-> order_id, before |-> OrderBefore(order_id),
                       status |-> BAD_REQUEST]
            /\ trace' = <<"repo.get_by_id">>
            /\ UNCHANGED orders
       ELSE /\ orders' = Drop(orders, order_id)
            /\ res' = [op |-> "controller.delete_order", role |-> role,
                       id |-> order_id, before |-> OrderBefore(order_id),
                       status |-> OK]
            /\ trace' = <<"repo.get_by_id", "repo.delete">>
    /\ UNCHANGED <<nextOrderId, orderCache, orderListCache>>
    /\ UNCHANGED <<productVars, userVars, authVars, auxVars>>

----------------------------------------------------------------------------
(* Products: product controller and ProductService *)

\* an admin check that lets every role through
get_admin_user_any_role(role) == role \in UserRole

\* get_admin_user lets the request through
get_admin_user(role) == role = ADMIN

\* CreateProductDTO: price > 0 and name_must_not_be_empty (not v.strip())
BlankName == " "
ValidCreateProductDTO(dto) == dto.price > 0 /\ dto.name # BlankName

\* UpdateProductDTO: a price that is given is > 0, a name that is given is
\* not blank; None passes both
ValidUpdateProductDTO(dto) ==
    /\ ("price" \in DOMAIN dto /\ dto.price # None) => dto.price[1] > 0
    /\ ("name" \in DOMAIN dto /\ dto.name # None) => dto.name[1] # BlankName

\* a name with its capitals folded
FoldCase(name) == IF name = "X-Burger" THEN "x-burger" ELSE name

\* a lookup that ignores case
find_by_name_ignoring_case(name) ==
    {id \in DOMAIN products : FoldCase(products[id].name) = FoldCase(name)}

\* ProductRepository.find_by_name / get_by_name: Product.name == name
find_by_name(name) == {id \in DOMAIN products : products[id].name = name}

\* Product.create
ProductCreate(dto, id) ==
    [id |-> id, name |-> dto.name, description |-> dto.description,
     price |-> dto.price, category |-> dto.category,
     created_at |-> now, updated_at |-> now]

\* ProductRepository.update: setattr for every field the request set, a None
\* included
ProductSetAttrs(product, product_data) ==
    [f \in DOMAIN product |->
        IF f \in DOMAIN product_data
        THEN (IF f \in NullableColumns \/ product_data[f] = None
              THEN product_data[f] ELSE product_data[f][1])
        ELSE product[f]]

\* the commit fails: a NOT NULL column is set to None, or the name is set to
\* another product's name (unique index)
ProductIntegrityError(product_id, product_data) ==
    \/ \E f \in (DOMAIN product_data) \ NullableColumns :
          product_data[f] = None
    \/ /\ "name" \in DOMAIN product_data
       /\ product_data.name # None
       /\ \E id \in DOMAIN products :
             id # product_id /\ products[id].name = product_data.name[1]

INTERNAL_SERVER_ERROR == "InternalServerError"

\* product controller, GET /products: ProductRepository.get_all
product_controller_fetch_products(offset, limit, role) ==
    /\ res' = [op |-> "fetch_products", role |-> role, status |-> OK,
               id |-> NoId, total_count |-> Cardinality(DOMAIN products)]
    /\ trace' = <<"repo.get_total_count", "repo.get_all">>
    /\ UNCHANGED <<orderVars, productVars, userVars, authVars, auxVars>>

\* product controller, GET /products/{product_id}
product_controller_get_product_by_id(product_id, role) ==
    /\ res' = [op |-> "get_product_by_id", role |-> role,
               status |-> IF product_exists(product_id) THEN OK
                          ELSE NOT_FOUND,
               id |-> product_id]
    /\ trace' = <<"repo.get_by_id">>
    /\ UNCHANGED <<orderVars, productVars, userVars, authVars, auxVars>>

\* product controller, POST /products
product_controller_create_product(product_dto, role, cap) ==
    /\ nextProductId <= cap
    /\ IF ~get_admin_user(role)
       THEN /\ res' = [op |-> "create_product", role |-> role,
                       dto |-> product_dto, status |-> FORBIDDEN,
                       id |-> NoId]
            /\ trace' = <<>>
            /\ UNCHANGED productVars
       ELSE IF ~ValidCreateProductDTO(product_dto)
       THEN /\ res' = [op |-> "create_product", role |-> role,
                       dto |-> product_dto,
                       status |-> UNPROCESSABLE_ENTITY, id |-> NoId]
            /\ trace' = <<>>
            /\ UNCHANGED productVars
       ELSE IF find_by_name(product_dto.name) # {}
       THEN /\ res' = [op |-> "create_product", role |-> role,
                       dto |-> product_dto, status |-> CONFLICT, id |-> NoId]
            /\ trace' = <<"repo.find_by_name">>
            /\ UNCHANGED productVars
       ELSE /\ products' = Put(products, nextProductId,
                               ProductCreate(product_dto, nextProductId))
            /\ nextProductId' = nextProductId + 1
            /\ res' = [op |-> "create_product", role |-> role,
                       dto |-> product_dto, status |-> CREATED,
                       id |-> nextProductId]
            /\ trace' = <<"repo.find_by_name", "repo.create">>
            /\ UNCHANGED <<productCache, productListCache>>
    /\ UNCHANGED <<orderVars, userVars, authVars, auxVars>>

\* product controller, PUT and PATCH /products/{product_id}
product_controller_update_product(product_id, product_dto, role) ==
    /\ IF ~get_admin_user(role)
       THEN /\ res' = [op |-> "update_product", role |-> role,
                       dto |-> product_dto, status |-> FORBIDDEN,
                       id |-> product_id]
            /\ trace' = <<>>
            /\ UNCHANGED products
       ELSE IF ~ValidUpdateProductDTO(product_dto)
       THEN /\ res' = [op |-> "update_product", role |-> role,
                       dto |-> product_dto,
                       status |-> UNPROCESSABLE_ENTITY, id |-> product_id]
            /\ trace' = <<>>
            /\ UNCHANGED products
       ELSE IF ~product_exists(product_id)
       THEN /\ res' = [op |-> "update_product", role |-> role,
                       dto |-> product_dto, status |-> NOT_FOUND,
                       id |-> product_id]
            /\ trace' = <<"repo.get_by_id">>
            /\ UNCHANGED products
       ELSE LET row == ProductSetAttrs(products[product_id], product_dto)
            IN  IF ProductIntegrityError(product_id, product_dto)
                THEN /\ res' = [op |-> "update_product", role |-> role,
                                dto |-> product_dto,
                                status |-> INTERNAL_SERVER_ERROR,
                                id |-> product_id]
                     /\ trace' = <<"repo.get_by_id", "repo.update">>
                     /\ UNCHANGED products
                ELSE /\ products' = [products EXCEPT ![product_id] = row]
                     /\ res' = [op |-> "update_product", role |-> role,
                                dto |-> product_dto, status |-> OK,
                                id |-> product_id]
                     /\ trace' = <<"repo.get_by_id", "repo.update">>
    /\ UNCHANGED <<nextProductId, productCache, productListCache>>
    /\ UNCHANGED <<orderVars, userVars, authVars, auxVars>>

\* product controller, DELETE /products/{product_id}
product_controller_delete_product(product_id, role) ==
    /\ IF ~get_admin_user(role)
       THEN /\ res' = [op |-> "delete_product", role |-> role,
                       status |-> FORBIDDEN, id |-> product_id]
            /\ trace' = <<>>
            /\ UNCHANGED products
       ELSE IF ~product_exists(product_id)
       THEN /\ res' = [op |-> "delete_product", role |-> role,
                       status |-> NOT_FOUND, id |-> product_id]
            /\ trace' = <<"repo.get_by_id">>
            /\ UNCHANGED products
       ELSE /\ products' = Drop(products, product_id)
            /\ res' = [op |-> "delete_product", role |-> role,
                       status |-> OK, id |-> product_id]
            /\ trace' = <<"repo.get_by_id", "repo.delete">>
    /\ UNCHANGED <<nextProductId, productCache, productListCache>>
    /\ UNCHANGED <<orderVars, userVars, authVars, auxVars>>

\* ProductService.create_product
ProductService_create_product(dto, cap) ==
    /\ nextProductId <= cap
    /\ ValidCreateProductDTO(dto)
    /\ IF find_by_name(dto.name) # {}
       THEN /\ res' = [op |-> "service.create_product", dto |-> dto,
                       status |-> CONFLICT, id |-> NoId]
            /\ trace' = <<"repo.get_by_name">>
            /\ UNCHANGED productVars
       ELSE /\ productListCache' = invalidate_list(productListCache)
            /\ productCache' = Drop(productCache, nextProductId)
            /\ products' = Put(products, nextProductId,
                               ProductCreate(dto, nextProductId))
            /\ nextProductId' = nextProductId + 1
            /\ res' = [op |-> "service.create_product", dto |-> dto,
                       status |-> CREATED, id |-> nextProductId]
            /\ trace' = <<"repo.get_by_name", "cache.invalidate_list",
                          "cache.invalidate", "repo.create">>
    /\ UNCHANGED <<orderVars, userVars, authVars, auxVars>>

----------------------------------------------------------------------------
(* Requests of the order runs *)

\* POST /products body that stocks the catalogue the orders refer to
CatalogueDTOs ==
    {[name |-> "X-Burger", description |-> None, price |-> 3,
      category |-> "FOOD"]}
CatalogueSize == Cardinality(CatalogueDTOs)

\* a product id no product ever gets
UnknownProductId == 9

OrderItemDTO(product_id, quantity, price) ==
    [product_id |-> product_id, quantity |-> quantity, price |-> price]

\* order bodies of the life-cycle runs: one item, of a product that may exist
LifecycleOrderDTOs ==
    {[items |-> <<OrderItemDTO(pid, 1, 3)>>, notes |-> None] :
        pid \in {1, UnknownProductId}}

\* PATCH /orders bodies of the life-cycle runs: nothing set, status set, or
\* status set to null
StatusUpdateDTOs ==
    {EmptyMap} \cup {[status |-> Some(st)] : st \in OrderStatus}
        \cup {[status |-> None]}

\* order bodies of the total runs: up to MaxItems items of the catalogue's
\* product, quantities 0 (refused by the DTO), 1 and 2, two prices
ItemDTOs ==
    {OrderItemDTO(1, q, pr) : q \in 0..2, pr \in {2, 3}}
ItemSeqs == UNION {[1..n -> ItemDTOs] : n \in 0..MaxItems}
TotalOrderDTOs == {[items |-> its, notes |-> None] : its \in ItemSeqs}

NextOrder ==
    \/ \E dto \in CatalogueDTOs :
         product_controller_create_product(dto, ADMIN, CatalogueSize)
    \/ \E dto \in LifecycleOrderDTOs, role \in RoleStrings,
          locator \in Locators :
         OrderService_create_order(dto, role, locator, MaxOrders)
    \/ \E id \in DOMAIN orders, dto \in StatusUpdateDTOs,
          role \in RoleStrings :
         OrderService_update_order(id, dto, role)
    \/ \E id \in DOMAIN orders, role \in RoleStrings :
         OrderService_delete_order(id, role)
    \/ \E id \in 1..MaxOrders, role \in UserRole :
         order_controller_delete_order(id, role)
    \/ \E id \in 1..MaxOrders : OrderService_get_order_by_id(id)

SpecOrder == Init /\ [][NextOrder]_vars

NextOrderTotal ==
    \/ \E dto \in CatalogueDTOs :
         product_controller_create_product(dto, ADMIN, CatalogueSize)
    \/ \E dto \in TotalOrderDTOs, role \in OrderWriteRoles,
          locator \in Locators :
         OrderService_create_order(dto, role, locator, MaxTotalOrders)
    \/ \E id \in 1..MaxTotalOrders : OrderService_get_order_by_id(id)

SpecOrderTotal == Init /\ [][NextOrderTotal]_vars

----------------------------------------------------------------------------
(* Properties of the orders *)

IsDelete == res.op \in {"delete_order", "controller.delete_order"}
DeleteOfStored == IsDelete /\ res.before # None

\* C1 as stated: delete_order on an order whose status is not pending always
\* fails with BadRequest and leaves the order stored; delete_order by an
\* admin or attendant on a pending order succeeds, and afterwards get_by_id
\* for that id fails with NotFound.
C1_AsStated ==
    /\ (DeleteOfStored /\ res.before[1].status # PENDING)
          => (res.status = BAD_REQUEST /\ res.id \in DOMAIN orders)
    /\ (DeleteOfStored /\ res.before[1].status = PENDING
          /\ res.role \in {ADMIN, ATTENDANT})
          => (res.status = OK /\ get_order_by_id_status(res.id) = NOT_FOUND)

\* C1 amended: delete_order on an order whose status is not pending always
\* fails and leaves the order stored as it was, with BadRequest when the
\* caller is admin or attendant and with Forbidden for any other role;
\* delete_order by an admin or attendant on a pending order succeeds, and
\* from then on get_by_id for that id fails with NotFound.
C1_DeleteGuard ==
    /\ (DeleteOfStored /\ res.before[1].status # PENDING)
          => /\ res.status = (IF res.role \in {ADMIN, ATTENDANT}
                              THEN BAD_REQUEST ELSE FORBIDDEN)
             /\ res.id \in DOMAIN orders
             /\ orders[res.id] = res.before[1]
    /\ (DeleteOfStored /\ res.before[1].status = PENDING
          /\ res.role \in {ADMIN, ATTENDANT})
          => (res.status = OK /\ res.id \notin DOMAIN orders)
    /\ \A id \in 1..(nextOrderId - 1) :
          id \notin DOMAIN orders => get_order_by_id_status(id) = NOT_FOUND

\* an admin was refused the deletion of a completed order, which is still
\* stored, while another order has been deleted and is looked up in vain
C1_Witness_Refused ==
    /\ res.op = "delete_order"
    /\ res.role = ADMIN
    /\ res.status = BAD_REQUEST
    /\ res.before[1].status = COMPLETED
    /\ \E id \in 1..(nextOrderId - 1) : id \notin DOMAIN orders

\* C2: create_order and delete_order by a user with role kitchen fail with
\* Forbidden and leave the stored orders unchanged; create_order by role
\* attendant or admin with valid items (every product resolves) succeeds and
\* stores the order.
C2_Step ==
    /\ (res'.op \in {"create_order", "delete_order",
                     "controller.delete_order"} /\ res'.role = KITCHEN)
          => (res'.status = FORBIDDEN /\ orders' = orders)
    /\ (res'.op = "create_order" /\ res'.role \in {ATTENDANT, ADMIN}
          /\ ValidCreateOrderDTO(res'.dto)
          /\ \A i \in 1..Len(res'.dto.items) :
                res'.dto.items[i].product_id \in DOMAIN products)
          => /\ res'.status = CREATED
             /\ res'.id \notin DOMAIN orders
             /\ DOMAIN orders' = (DOMAIN orders) \cup {res'.id}
             /\ \A id \in DOMAIN orders : orders'[id] = orders[id]
C2_RoleMatrix == [][C2_Step]_vars

\* the kitchen was refused while an order created by an attendant is stored
C2_Witness_KitchenRefused ==
    /\ res.op = "delete_order"
    /\ res.role = KITCHEN
    /\ res.status = FORBIDDEN
    /\ orders # EmptyMap

RECURSIVE SumUpTo(_, _)
\* quantity * price of the first n items, added up
SumUpTo(items, n) ==
    IF n = 0 THEN 0
    ELSE SumUpTo(items, n - 1) + items[n].quantity * items[n].price

\* C3: for every order O returned by a successful create_order, O.total is
\* the sum over O's items of quantity * price; O has one item per item of the
\* request, with the request's quantity and price.
C3_Total ==
    (res.op = "create_order" /\ res.status = CREATED)
        => /\ res.id \in DOMAIN orders
           /\ LET O == orders[res.id]
              IN  /\ O.total = SumUpTo(O.products, Len(O.products))
                  /\ Len(O.products) = Len(res.dto.items)
                  /\ O.total = SumUpTo(res.dto.items, Len(res.dto.items))

\* an order of two items with different quantities and prices was created
C3_Witness_TwoItems ==
    /\ res.op = "create_order"
    /\ res.status = CREATED
    /\ Len(res.dto.items) = 2
    /\ res.dto.items[1].quantity # res.dto.items[2].quantity
    /\ res.dto.items[1].price # res.dto.items[2].price
    /\ orders[res.id].total = 8

----------------------------------------------------------------------------
(* Requests of the product runs *)

\* two names that differ in case only, and a blank one
ProductNames == {"X-Burger", "x-burger", BlankName}

\* POST /products bodies; price 0 is refused by the DTO
ProductDTOs ==
    {[name |-> n, description |-> None, price |-> pr, category |-> "FOOD"] :
        n \in ProductNames, pr \in {0, 3}}

\* PATCH /products bodies: nothing set, a rename, a null name, a new price,
\* a refused price
ProductUpdateDTOs ==
    {EmptyMap, [name |-> Some("x-burger")], [name |-> None],
     [price |-> Some(5)], [price |-> Some(0)]}

NextProduct ==
    \/ \E dto \in ProductDTOs, role \in UserRole :
         product_controller_create_product(dto, role, MaxProducts)
    \/ \E dto \in ProductDTOs :
         ProductService_create_product(dto, MaxProducts)
    \/ \E id \in 1..MaxProducts, dto \in ProductUpdateDTOs,
          role \in UserRole :
         product_controller_update_product(id, dto, role)
    \/ \E id \in 1..MaxProducts, role \in UserRole :
         product_controller_delete_product(id, role)
    \/ \E role \in UserRole : product_controller_fetch_products(0, 100, role)
    \/ \E id \in 1..MaxProducts, role \in UserRole :
         product_controller_get_product_by_id(id, role)

SpecProduct == Init /\ [][NextProduct]_vars

----------------------------------------------------------------------------
(* Properties of the products *)

\* the request is a creation that got as far as the name lookup
CreateReachedLookup(r) ==
    \/ r.op = "service.create_product"
    \/ /\ r.op = "create_product"
       /\ r.role = ADMIN
       /\ ValidCreateProductDTO(r.dto)

InTrace(call, tr) == \E i \in 1..Len(tr) : tr[i] = call

\* C5: a creation whose name is exactly, case included, the name of a stored
\* product fails with Conflict, stores nothing and never calls
\* repository.create; a name that differs in case only is no duplicate; no
\* two stored products ever share a name.
C5_Step ==
    /\ (CreateReachedLookup(res')
          /\ \E id \in DOMAIN products : products[id].name = res'.dto.name)
          => /\ res'.status = CONFLICT
             /\ products' = products
             /\ nextProductId' = nextProductId
             /\ ~InTrace("repo.create", trace')
    /\ (CreateReachedLookup(res')
          /\ \A id \in DOMAIN products : products[id].name # res'.dto.name)
          => /\ res'.status = CREATED
             /\ res'.id \in DOMAIN products'
             /\ products'[res'.id].name = res'.dto.name
    /\ \A a, b \in DOMAIN products' :
          products'[a].name = products'[b].name => a = b
C5_DuplicateName == [][C5_Step]_vars

\* "X-Burger" and "x-burger" are both stored, and a second "x-burger" was
\* refused by the service
C5_Witness_Conflict ==
    /\ res.op = "service.create_product"
    /\ res.status = CONFLICT
    /\ res.dto.name = "x-burger"
    /\ \E a, b \in DOMAIN products :
          products[a].name = "X-Burger" /\ products[b].name = "x-burger"

\* C6: product create, update and delete by kitchen or attendant fail with
\* Forbidden and leave the stored products unchanged; the list succeeds for
\* every role, and so does get_by_id of a stored product.
C6_Step ==
    /\ (res'.op \in {"create_product", "update_product", "delete_product"}
          /\ res'.role \in {KITCHEN, ATTENDANT})
          => (res'.status = FORBIDDEN /\ products' = products)
    /\ res'.op = "fetch_products"
          => (res'.status = OK
              /\ res'.total_count = Cardinality(DOMAIN products))
    /\ (res'.op = "get_product_by_id" /\ res'.id \in DOMAIN products)
          => res'.status = OK
    /\ \A role \in UserRole :
          /\ ENABLED product_controller_fetch_products(0, 100, role)
          /\ \A id \in DOMAIN products :
                ENABLED product_controller_get_product_by_id(id, role)
C6_AdminOnlyWrites == [][C6_Step]_vars

\* the kitchen was refused the deletion of a stored product
C6_Witness_KitchenRefused ==
    /\ res.op = "delete_product"
    /\ res.role = KITCHEN
    /\ res.status = FORBIDDEN
    /\ res.id \in DOMAIN products

----------------------------------------------------------------------------
(* Credentials: auth/password.py and the DTOs of the user *)

\* salts pwd_context.hash may draw; two are enough to hash one password in
\* two ways
Salts == {1, 2}

\* the Argon2 digest of a password under a salt: equal digests under one
\* salt come from equal passwords only
Argon2(password, salt) == <<salt, password>>

\* get_password_hash of a non-empty str: the encoded hash names its scheme
\* and its salt
get_password_hash(password, salt) ==
    [scheme |-> "argon2", salt |-> salt, digest |-> Argon2(password, salt)]

\* pwd_context.verify can tell the scheme of the stored value
hash_identified(hashed_password) == hashed_password.scheme = "argon2"

\* verify_password, on a stored value whose scheme is known
verify_password(plain_password, hashed_password) ==
    IF plain_password = "" THEN FALSE
    ELSE Argon2(plain_password, hashed_password.salt)
            = hashed_password.digest

\* a validator that hands the password on as it came
hash_password_unhashed(v, salt) ==
    IF v = None THEN None
    ELSE Some([scheme |-> "plain", salt |-> 0, digest |-> <<0, v[1]>>])

\* PasswordHashMixin.hash_password: a password that is given is hashed, None
\* stays None
hash_password(v, salt) ==
    IF v = None THEN None ELSE Some(get_password_hash(v[1], salt))

\* password: str = Field(min_length=6)
MinPasswordLength == 6

\* CreateUserDTO accepts the body
ValidCreateUserBody(body) == Len(body.password) >= MinPasswordLength

\* CreateUserDTO built from the body: the password field holds the hash
CreateUserDTO(body, salt) ==
    [body EXCEPT !.password = hash_password(Some(body.password), salt)[1]]

\* UpdateUserDTO accepts the body
ValidUpdateUserBody(body) ==
    ("password" \in DOMAIN body /\ body.password # None)
        => Len(body.password[1]) >= MinPasswordLength

\* UpdateUserDTO built from the body, as model_dump(exclude_unset=True)
\* gives it: the fields the body set, the password hashed
UpdateUserDTO(body, salt) ==
    [f \in DOMAIN body |->
        IF f = "password" THEN hash_password(body[f], salt) ELSE body[f]]

----------------------------------------------------------------------------
(* Users: repository and user controller *)

\* UserRepository.get_by_username: User.username == username
get_by_username(username) ==
    {id \in DOMAIN users : users[id].username = username}

\* BaseRepository.get_by_id (session.get) finds a row of the user table
user_exists(id) == id \in DOMAIN users

\* User(**dto.model_dump())
UserFromDTO(dto, id) ==
    [id |-> id, username |-> dto.username, email |-> dto.email,
     password |-> dto.password, full_name |-> dto.full_name,
     role |-> dto.role, created_at |-> now, updated_at |-> now]

\* the commit of a new user fails: username and email are unique columns
UserCreateIntegrityError(dto) ==
    \E id \in DOMAIN users :
        users[id].username = dto.username \/ users[id].email = dto.email

\* the commit of an update fails: the email is set to another user's email
UserUpdateIntegrityError(user_id, update_data) ==
    /\ "email" \in DOMAIN update_data
    /\ update_data.email # None
    /\ \E id \in DOMAIN users :
          id # user_id /\ users[id].email = update_data.email[1]

\* a check that lets every role through
current_user_is_admin_any_role(role) == role \in UserRole

\* the user controller goes on: current_user.role == UserRole.ADMIN
current_user_is_admin(role) == role = ADMIN

\* UserService.ensure_admin lets the user through
ensure_admin(role) == role = ADMIN

\* user controller, GET /users
user_controller_fetch_users(offset, limit, role) ==
    /\ IF ~current_user_is_admin(role)
       THEN /\ res' = [op |-> "fetch_users", role |-> role,
                       status |-> FORBIDDEN, id |-> NoId]
            /\ trace' = <<>>
       ELSE /\ res' = [op |-> "fetch_users", role |-> role,
                       status |-> OK, id |-> NoId]
            /\ trace' = <<"repo.get_all", "repo.get_total_count">>
    /\ UNCHANGED <<orderVars, productVars, userVars, authVars, auxVars>>

\* user controller, GET /users/{user_id}
user_controller_fetch_user_by_id(user_id, role) ==
    /\ IF ~current_user_is_admin(role)
       THEN /\ res' = [op |-> "fetch_user_by_id", role |-> role,
                       status |-> FORBIDDEN, id |-> user_id]
            /\ trace' = <<>>
       ELSE /\ res' = [op |-> "fetch_user_by_id", role |-> role,
                       status |-> IF user_exists(user_id) THEN OK
                                  ELSE NOT_FOUND,
                       id |-> user_id]
            /\ trace' = <<"repo.get_by_id">>
    /\ UNCHANGED <<orderVars, productVars, userVars, authVars, auxVars>>

\* user controller, POST /users; the handler is entered with a CreateUserDTO,
\* which pydantic builds (and hashes) only from a body it accepts
user_controller_create_user(body, salt, role, cap) ==
    /\ nextUserId <= cap
    /\ ValidCreateUserBody(body)
    /\ LET dto == CreateUserDTO(body, salt)
       IN  IF ~current_user_is_admin(role)
           THEN /\ res' = [op |-> "create_user", role |-> role,
                           status |-> FORBIDDEN, id |-> NoId]
                /\ trace' = <<>>
                /\ UNCHANGED <<users, nextUserId, lastPassword>>
           ELSE IF UserCreateIntegrityError(dto)
           THEN /\ res' = [op |-> "create_user", role |-> role,
                           status |-> INTERNAL_SERVER_ERROR, id |-> NoId]
                /\ trace' = <<"repo.create">>
                /\ UNCHANGED <<users, nextUserId, lastPassword>>
           ELSE /\ users' = Put(users, nextUserId,
                                UserFromDTO(dto, nextUserId))
                /\ nextUserId' = nextUserId + 1
                /\ lastPassword' = Put(lastPassword, nextUserId,
                                       body.password)
                /\ res' = [op |-> "create_user", role |-> role,
                           status |-> CREATED, id |-> nextUserId]
                /\ trace' = <<"repo.create">>
    /\ UNCHANGED <<userCache, userListCache>>
    /\ UNCHANGED <<orderVars, productVars, authVars, auxVars>>

\* user controller, PATCH /users/{user_id}; the handler is entered with an
\* UpdateUserDTO
user_controller_update_user(user_id, body, salt, role) ==
    /\ ValidUpdateUserBody(body)
    /\ LET update_data == UpdateUserDTO(body, salt)
       IN  IF ~current_user_is_admin(role)
           THEN /\ res' = [op |-> "update_user", role |-> role,
                           status |-> FORBIDDEN, id |-> user_id]
                /\ trace' = <<>>
                /\ UNCHANGED <<users, lastPassword>>
           ELSE IF ~user_exists(user_id)
           THEN /\ res' = [op |-> "update_user", role |-> role,
                           status |-> NOT_FOUND, id |-> user_id]
                /\ trace' = <<"repo.get_by_id">>
                /\ UNCHANGED <<users, lastPassword>>
           ELSE IF UserUpdateIntegrityError(user_id, update_data)
           THEN /\ res' = [op |-> "update_user", role |-> role,
                           status |-> INTERNAL_SERVER_ERROR, id |-> user_id]
                /\ trace' = <<"repo.get_by_id", "repo.update">>
                /\ UNCHANGED <<users, lastPassword>>
           ELSE /\ users' = [users EXCEPT
                               ![user_id] = RepoUpdate(users[user_id],
                                                       update_data)]
                /\ lastPassword' =
                      IF "password" \in DOMAIN body /\ body.password # None
                      THEN [lastPassword EXCEPT
                               ![user_id] = body.password[1]]
                      ELSE lastPassword
                /\ res' = [op |-> "update_user", role |-> role,
                           status |-> OK, id |-> user_id]
                /\ trace' = <<"repo.get_by_id", "repo.update">>
    /\ UNCHANGED <<nextUserId, userCache, userListCache>>
    /\ UNCHANGED <<orderVars, productVars, authVars, auxVars>>

\* user controller, DELETE /users/{user_id}
user_controller_delete_user(user_id, role) ==
    /\ IF ~current_user_is_admin(role)
       THEN /\ res' = [op |-> "delete_user", role |-> role,
                       status |-> FORBIDDEN, id |-> user_id]
            /\ trace' = <<>>
            /\ UNCHANGED <<users, lastPassword>>
       ELSE IF ~user_exists(user_id)
       THEN /\ res' = [op |-> "delete_user", role |-> role,
                       status |-> NOT_FOUND, id |-> user_id]
            /\ trace' = <<"repo.get_by_id">>
            /\ UNCHANGED <<users, lastPassword>>
       ELSE /\ users' = Drop(users, user_id)
            /\ lastPassword' = Drop(lastPassword, user_id)
            /\ res' = [op |-> "delete_user", role |-> role,
                       status |-> OK, id |-> user_id]
            /\ trace' = <<"repo.get_by_id", "repo.delete">>
    /\ UNCHANGED <<nextUserId, userCache, userListCache>>
    /\ UNCHANGED <<orderVars, productVars, authVars, auxVars>>

----------------------------------------------------------------------------
(* Identity and token: auth/token.py and auth/security.py *)

\* a message that tells the caller the username is not known
unknown_user_detail_leaking == "User not found"

\* detail of the failure raised when get_by_username finds nobody
unknown_user_detail == "Incorrect username or password"

\* detail of the failure raised when verify_password says no
wrong_password_detail == "Incorrect username or password"

\* validate_user_credentials: what the caller gets; a stored value of an
\* unknown scheme makes pwd_context.verify raise UnknownHashError
validate_user_credentials(username, password) ==
    LET found == get_by_username(username)
    IN  IF found = {}
        THEN [status |-> UNAUTHORIZED, detail |-> unknown_user_detail,
              user |-> NoId]
        ELSE LET id == CHOOSE i \in found : TRUE
             IN  IF password # "" /\ ~hash_identified(users[id].password)
                 THEN [status |-> INTERNAL_SERVER_ERROR,
                       detail |-> "UnknownHashError", user |-> NoId]
                 ELSE IF ~verify_password(password, users[id].password)
                 THEN [status |-> UNAUTHORIZED,
                       detail |-> wrong_password_detail, user |-> NoId]
                 ELSE [status |-> OK, detail |-> "", user |-> id]

\* a call of validate_user_credentials
token_validate_user_credentials(username, password) ==
    /\ LET out == validate_user_credentials(username, password)
       IN  res' = [op |-> "validate_user_credentials",
                   username |-> username, password |-> password,
                   status |-> out.status, detail |-> out.detail,
                   id |-> out.user]
    /\ trace' = <<"repo.get_by_username">>
    /\ UNCHANGED <<orderVars, productVars, userVars, authVars, auxVars>>

\* settings.JWT_ACCESS_TOKEN_EXPIRE_MINUTES, a value of the deployment
JWT_ACCESS_TOKEN_EXPIRE_MINUTES == 2

JWT_SECRET_KEY == "JWT_SECRET_KEY"

\* create_access_token(data={'sub': username}) at time t
create_access_token(username, t) ==
    [form |-> "jwt", sub |-> Some(username),
     exp |-> t + JWT_ACCESS_TOKEN_EXPIRE_MINUTES, key |-> JWT_SECRET_KEY]

\* form_data.username or form_data.password is empty or blank
BlankField == " "
blank(s) == s = "" \/ s = BlankField

\* token controller, POST /token
create_token(username, password) ==
    /\ Cardinality(issued) < MaxTokens
    /\ IF blank(username) \/ blank(password)
       THEN /\ res' = [op |-> "create_token", username |-> username,
                       password |-> password,
                       status |-> UNPROCESSABLE_ENTITY,
                       detail |-> IF blank(username)
                                  THEN "Username cannot be empty"
                                  ELSE "Password cannot be empty",
                       id |-> NoId]
            /\ trace' = <<>>
            /\ issued' = issued
       ELSE LET out == validate_user_credentials(username, password)
            IN  IF out.status = OK
                THEN /\ issued' = issued \cup
                          {[token |-> create_access_token(
                                         users[out.user].username, now),
                            uid |-> out.user]}
                     /\ res' = [op |-> "create_token",
                                username |-> username,
                                password |-> password, status |-> OK,
                                detail |-> "", id |-> out.user]
                     /\ trace' = <<"repo.get_by_username">>
                ELSE /\ issued' = issued
                     /\ res' = [op |-> "create_token",
                                username |-> username,
                                password |-> password,
                                status |-> UNAUTHORIZED,
                                detail |-> IF out.status = UNAUTHORIZED
                                           THEN out.detail
                                           ELSE "Incorrect username or password",
                                id |-> NoId]
                     /\ trace' = <<"repo.get_by_username">>
    /\ now' = now
    /\ UNCHANGED <<orderVars, productVars, userVars, auxVars>>

\* jwt.decode raises a PyJWTError: the token is no JWT, its signature is not
\* made with JWT_SECRET_KEY, or its exp has passed
decode_raises(token) ==
    \/ token.form # "jwt"
    \/ token.key # JWT_SECRET_KEY
    \/ token.exp <= now

\* a lookup of the subject that finds a user whatever the table holds
subject_users_unchecked(token) ==
    IF token.sub = None THEN {} ELSE {NoId}

\* user_repository.get_by_username(payload.get('sub'))
subject_users(token) ==
    IF token.sub = None THEN {} ELSE get_by_username(token.sub[1])

\* get_current_user: what the request gets
get_current_user(token) ==
    IF decode_raises(token) \/ token.sub = None \/ subject_users(token) = {}
    THEN [status |-> UNAUTHORIZED,
          detail |-> "Could not validate credentials", user |-> NoId]
    ELSE [status |-> OK, detail |-> "",
          user |-> CHOOSE i \in subject_users(token) : TRUE]

\* a request that carries the token, as far as its get_current_user
request_get_current_user(token) ==
    /\ LET out == get_current_user(token)
       IN  res' = [op |-> "get_current_user", token |-> token,
                   at |-> now, status |-> out.status,
                   detail |-> out.detail, id |-> out.user]
    /\ trace' = IF decode_raises(token) \/ token.sub = None THEN <<>>
                ELSE <<"repo.get_by_username">>
    /\ UNCHANGED <<orderVars, productVars, userVars, authVars, auxVars>>

\* a minute passes
Tick ==
    /\ now < MaxTime
    /\ now' = now + 1
    /\ UNCHANGED <<orderVars, productVars, userVars, issued, res, trace,
                   auxVars>>

----------------------------------------------------------------------------
(* Requests of the user runs and of the token runs *)

Usernames == {"alice", "bob"}
\* a username no user is ever created with
UnknownUsername == "mallory"
AttemptUsernames == Usernames \cup {UnknownUsername}

EmailOf(username) ==
    IF username = "alice" THEN "alice@example.com" ELSE "bob@example.com"

\* "short" has five characters and is refused by the DTOs
CreatePasswords == {"secret1", "short"}
AttemptPasswords == {"secret1", "secret2", "short", ""}

\* POST /users bodies
UserBodies ==
    {[username |-> u, email |-> EmailOf(u), password |-> p,
      role |-> KITCHEN, full_name |-> None] :
        u \in Usernames, p \in CreatePasswords}

\* PATCH /users bodies: nothing set, a new password, the first password
\* again, a null password, a refused password, the email of bob
UserUpdateBodies ==
    {EmptyMap, [password |-> Some("secret2")], [password |-> Some("secret1")],
     [password |-> None], [password |-> Some("short")],
     [email |-> Some(EmailOf("bob"))]}

NextUser ==
    \/ \E body \in UserBodies, salt \in Salts, role \in UserRole :
         user_controller_create_user(body, salt, role, MaxUsers)
    \/ \E id \in 1..MaxUsers, body \in UserUpdateBodies, salt \in Salts,
          role \in UserRole :
         user_controller_update_user(id, body, salt, role)
    \/ \E id \in 1..MaxUsers, role \in UserRole :
         user_controller_delete_user(id, role)
    \/ \E role \in UserRole : user_controller_fetch_users(0, 100, role)
    \/ \E id \in 1..MaxUsers, role \in UserRole :
         user_controller_fetch_user_by_id(id, role)
    \/ \E username \in AttemptUsernames, password \in AttemptPasswords :
         token_validate_user_credentials(username, password)

SpecUser == Init /\ [][NextUser]_vars

\* POST /users bodies of the token runs
AuthUserBodies ==
    {[username |-> u, email |-> EmailOf(u), password |-> "secret1",
      role |-> KITCHEN, full_name |-> None] : u \in Usernames}

\* tokens nobody was issued: one that is no JWT, one signed with another
\* key, one signed with the key of the deployment that has no subject
GarbageToken == [form |-> "garbage", sub |-> None, exp |-> 0, key |-> ""]
ForgedSignatureToken ==
    [form |-> "jwt", sub |-> Some("alice"), exp |-> MaxTime + 1,
     key |-> "another key"]
NoSubjectToken ==
    [form |-> "jwt", sub |-> None, exp |-> MaxTime + 1,
     key |-> JWT_SECRET_KEY]
ForgedTokens == {GarbageToken, ForgedSignatureToken, NoSubjectToken}

IssuedTokens == {it.token : it \in issued}

NextAuth ==
    \/ \E body \in AuthUserBodies :
         user_controller_create_user(body, 1, ADMIN, MaxAuthUsers)
    \/ \E id \in 1..MaxAuthUsers : user_controller_delete_user(id, ADMIN)
    \/ \E username \in AttemptUsernames \cup {""},
          password \in {"secret1", "secret2", BlankField} :
         create_token(username, password)
    \/ \E token \in IssuedTokens \cup ForgedTokens :
         request_get_current_user(token)
    \/ Tick

SpecAuth == Init /\ [][NextAuth]_vars

----------------------------------------------------------------------------
(* Properties of the users, the credentials and the tokens *)

UserOps ==
    {"fetch_users", "fetch_user_by_id", "create_user", "update_user",
     "delete_user"}

\* C7: every user operation (list, get, create, update, delete) by a caller
\* whose role is not admin fails with Forbidden, before any call to the user
\* repository or the user cache, and leaves users and cache as they were; the
\* operation is refused exactly when ensure_admin refuses the caller.
C7_Step ==
    /\ (res'.op \in UserOps /\ res'.role # ADMIN)
          => /\ res'.status = FORBIDDEN
             /\ trace' = <<>>
             /\ UNCHANGED userVars
    /\ res'.op \in UserOps
          => (res'.status = FORBIDDEN <=> ~ensure_admin(res'.role))
C7_AdminGuardFirst == [][C7_Step]_vars

\* an attendant was refused the deletion of a stored user
C7_Witness_AttendantRefused ==
    /\ res.op = "delete_user"
    /\ res.role = ATTENDANT
    /\ res.status = FORBIDDEN
    /\ res.id \in DOMAIN users
    /\ trace = <<>>

SubjectStored(token) ==
    /\ token.sub # None
    /\ \E id \in DOMAIN users : users[id].username = token.sub[1]

C10_SameFailure ==
    /\ \A u1, u2 \in AttemptUsernames, p1, p2 \in AttemptPasswords :
          LET a == validate_user_credentials(u1, p1)
              b == validate_user_credentials(u2, p2)
          IN  (a.status # OK /\ b.status # OK)
                 => /\ a = b
                    /\ a.status = UNAUTHORIZED
    /\ (res.op = "validate_user_credentials" /\ res.status # OK)
          => /\ res.status = UNAUTHORIZED
             /\ res.detail = wrong_password_detail
             /\ res.id = NoId

\* a call with an unknown username has failed while a call with a stored
\* username and a wrong password fails as well
C10_Witness_BothCauses ==
    /\ res.op = "validate_user_credentials"
    /\ res.status = UNAUTHORIZED
    /\ get_by_username(res.username) = {}
    /\ \E username \in Usernames :
          /\ get_by_username(username) # {}
          /\ validate_user_credentials(username, "secret2").status
                = UNAUTHORIZED

----------------------------------------------------------------------------
(* Requests of the timestamp runs: one product, orders and users that are  *)
(* created and updated while the clock goes on                              *)

StampedOrderDTOs == {[items |-> <<OrderItemDTO(1, 1, 3)>>, notes |-> None]}

StampedOrderUpdates ==
    {EmptyMap, [status |-> Some(COMPLETED)], [notes |-> Some("extra")]}

StampedProductUpdates == {EmptyMap, [price |-> Some(5)]}

StampedUserBodies ==
    {[username |-> "alice", email |-> EmailOf("alice"),
      password |-> "secret1", role |-> KITCHEN, full_name |-> None]}

StampedUserUpdates == {EmptyMap, [full_name |-> Some("Alice A.")]}

NextTimestamps ==
    \/ \E dto \in CatalogueDTOs :
         product_controller_create_product(dto, ADMIN, CatalogueSize)
    \/ \E id \in 1..CatalogueSize, dto \in StampedProductUpdates :
         product_controller_update_product(id, dto, ADMIN)
    \/ \E dto \in StampedOrderDTOs :
         OrderService_create_order(dto, ADMIN, "A000", MaxStamped)
    \/ \E id \in DOMAIN orders, dto \in StampedOrderUpdates :
         OrderService_update_order(id, dto, KITCHEN)
    \/ \E body \in StampedUserBodies :
         user_controller_create_user(body, 1, ADMIN, MaxStamped)
    \/ \E id \in 1..MaxStamped, body \in StampedUserUpdates :
         user_controller_update_user(id, body, 1, ADMIN)
    \/ Tick

SpecTimestamps == Init /\ [][NextTimestamps]_vars

\* the update of a row that changed a field, made after the clock went on,
\* left created_at and made updated_at strictly greater
Restamped(before, after) ==
    (after # before /\ now > before.updated_at)
        => /\ after.created_at = before.created_at
           /\ after.updated_at > before.updated_at

\* C11: an update of an order, a product or a user that changes at least one
\* field leaves created_at unchanged and makes the stored updated_at strictly
\* greater than it was (the clock having gone on since the row was stamped).
C11_Step ==
    /\ (res'.op = "update_order" /\ res'.status = OK)
          => Restamped(orders[res'.id], orders'[res'.id])
    /\ (res'.op = "update_product" /\ res'.status = OK)
          => Restamped(products[res'.id], products'[res'.id])
    /\ (res'.op = "update_user" /\ res'.status = OK)
          => Restamped(users[res'.id], users'[res'.id])
C11_UpdatedAtIncreases == [][C11_Step]_vars

----------------------------------------------------------------------------
(* Orders: PATCH /orders/{order_id} of the order controller, and the        *)
(* requests of the update runs                                              *)

\* order controller, PATCH /orders/{order_id}: repository.update is handed
\* the UpdateOrderDTO itself, which has no items(); the AttributeError is
\* caught, rolled back and raised again
order_controller_update_order(order_id, dto, role) ==
    /\ IF role \notin OrderUpdateRoles
       THEN /\ res' = [op |-> "controller.update_order", role |-> role,
                       id |-> order_id, dto |-> dto, status |-> FORBIDDEN]
            /\ trace' = <<>>
       ELSE IF ~order_exists(order_id)
       THEN /\ res' = [op |-> "controller.update_order", role |-> role,
                       id |-> order_id, dto |-> dto, status |-> NOT_FOUND]
            /\ trace' = <<"repo.get_by_id">>
       ELSE /\ res' = [op |-> "controller.update_order", role |-> role,
                       id |-> order_id, dto |-> dto,
                       status |-> INTERNAL_SERVER_ERROR]
            /\ trace' = <<"repo.get_by_id", "repo.update">>
    /\ UNCHANGED <<orderVars, productVars, userVars, authVars, auxVars>>

\* the keys of f and of g, with the values of f where both have one
Merge(f, g) ==
    [x \in (DOMAIN f) \cup (DOMAIN g) |->
        IF x \in DOMAIN f THEN f[x] ELSE g[x]]

\* Order.rating: ge=1, le=5
MinRating == 1
MaxRating == 5

\* UpdateOrderDTO bodies: each of status, rating and notes is absent, given
\* or null; rating is any int
UpdateStatusParts == {EmptyMap, [status |-> Some(COMPLETED)], [status |-> None]}
UpdateRatingParts ==
    {EmptyMap, [rating |-> Some(3)], [rating |-> Some(MaxRating + 1)],
     [rating |-> None]}
UpdateNotesParts == {EmptyMap, [notes |-> Some("extra")], [notes |-> None]}
OrderUpdateDTOs ==
    {Merge(Merge(st, rt), nt) :
        st \in UpdateStatusParts, rt \in UpdateRatingParts,
        nt \in UpdateNotesParts}

\* order bodies of the update runs, with and without notes
NotedOrderDTOs ==
    {[items |-> <<OrderItemDTO(1, 1, 3)>>, notes |-> nt] :
        nt \in {None, Some("no onions")}}

NextOrderUpdate ==
    \/ \E dto \in CatalogueDTOs :
         product_controller_create_product(dto, ADMIN, CatalogueSize)
    \/ \E dto \in NotedOrderDTOs :
         OrderService_create_order(dto, ATTENDANT, "A000", MaxTotalOrders)
    \/ \E id \in DOMAIN orders, dto \in OrderUpdateDTOs,
          role \in {KITCHEN, OtherRole} :
         OrderService_update_order(id, dto, role)
    \/ \E id \in 1..MaxTotalOrders, dto \in OrderUpdateDTOs,
          role \in {KITCHEN, OtherRole} :
         order_controller_update_order(id, dto, role)

SpecOrderUpdate == Init /\ [][NextOrderUpdate]_vars

\* C12: a successful update_order sets every field present in the dto to the
\* supplied value, null included for the fields that can hold null (notes,
\* rating), leaves every absent field as it was, and never changes id,
\* total, locator, items or created_at.
C12_Step ==
    (res'.op = "update_order" /\ res'.status = OK)
        => LET before == orders[res'.id]
               after == orders'[res'.id]
               dto == res'.dto
           IN  /\ \A f \in {"notes", "rating"} :
                     IF f \in DOMAIN dto THEN after[f] = dto[f]
                     ELSE after[f] = before[f]
               /\ IF "status" \in DOMAIN dto
                  THEN dto.status # None => after.status = dto.status[1]
                  ELSE after.status = before.status
               /\ \A f \in {"id", "total", "locator", "products",
                              "created_at"} : after[f] = before[f]
C12_PartialUpdate == [][C12_Step]_vars

\* C18: every stored order's rating is absent or an integer from 1 to 5.
C18_RatingRange ==
    \A id \in DOMAIN orders :
        \/ orders[id].rating = None
        \/ /\ orders[id].rating[1] >= MinRating
           /\ orders[id].rating[1] <= MaxRating

----------------------------------------------------------------------------
(* Order items: unknown products and item prices *)

\* the price the catalogue's product is changed to
RaisedPrice == 5

\* PUT /products bodies that change the price
PriceUpdateDTOs == {[price |-> Some(RaisedPrice)]}

\* items of the catalogue's product or of an unknown one, at the product's
\* price or at another one
PricedItemDTOs ==
    {OrderItemDTO(pid, 1, pr) : pid \in {1, UnknownProductId}, pr \in {2, 3}}
PricedItemSeqs == UNION {[1..n -> PricedItemDTOs] : n \in 1..MaxItems}
PricedOrderDTOs == {[items |-> its, notes |-> None] : its \in PricedItemSeqs}

NextOrderItems ==
    \/ \E dto \in CatalogueDTOs :
         product_controller_create_product(dto, ADMIN, CatalogueSize)
    \/ \E id \in 1..CatalogueSize, dto \in PriceUpdateDTOs :
         product_controller_update_product(id, dto, ADMIN)
    \/ \E dto \in PricedOrderDTOs, role \in {ATTENDANT, KITCHEN} :
         OrderService_create_order(dto, role, "A000", MaxTotalOrders)
    \/ \E id \in 1..MaxTotalOrders : OrderService_get_order_by_id(id)

SpecOrderItems == Init /\ [][NextOrderItems]_vars

\* some item of the request names a product the repository does not hold
SomeProductUnknown(items) ==
    \E i \in 1..Len(items) : ~product_exists(items[i].product_id)

C13_Step ==
    (res'.op = "create_order" /\ SomeProductUnknown(res'.dto.items))
        => /\ res'.status \in {FORBIDDEN, UNPROCESSABLE_ENTITY}
           /\ res'.role \in OrderWriteRoles
                 => res'.status = UNPROCESSABLE_ENTITY
           /\ orders' = orders
           /\ nextOrderId' = nextOrderId
           /\ ~InTrace("repo.create", trace')

\* C13: create_order by a caller allowed to create orders fails with
\* UnprocessableEntity if any item's product id does not resolve in the
\* Product repository, and then nothing is persisted: no order and no order
\* item of the request is stored, whichever position the unknown product has
\* in the item list.
C13_UnknownProduct == [][C13_Step]_vars

\* a request refused for its second item, the first one naming a product
\* that exists
C13_Witness_SecondItemUnknown ==
    /\ res.op = "create_order"
    /\ res.status = UNPROCESSABLE_ENTITY
    /\ Len(res.dto.items) = 2
    /\ product_exists(res.dto.items[1].product_id)
    /\ ~product_exists(res.dto.items[2].product_id)
    /\ orders = EmptyMap

IsProductWrite(r) == r.op \in {"update_product", "delete_product"}

\* the items stored for a created order, one per input item, each with the
\* price given by PriceOf
ItemsStoredWith(PriceOf(_), dto, order) ==
    /\ Len(order.products) = Len(dto.items)
    /\ \A i \in 1..Len(dto.items) :
          /\ order.products[i].product_id = dto.items[i].product_id
          /\ order.products[i].quantity = dto.items[i].quantity
          /\ order.products[i].price = PriceOf(dto.items[i])

CataloguePrice(item) == products[item.product_id].price
RequestPrice(item) == item.price

C14_Step_AsStated ==
    /\ (res'.op = "create_order" /\ res'.status = CREATED)
          => ItemsStoredWith(CataloguePrice, res'.dto, orders'[res'.id])
    /\ IsProductWrite(res') => orders' = orders

C14_Step ==
    /\ (res'.op = "create_order" /\ res'.status = CREATED)
          => ItemsStoredWith(RequestPrice, res'.dto, orders'[res'.id])
    /\ IsProductWrite(res') => orders' = orders

----------------------------------------------------------------------------
(* Locators *)

\* C15: order locators are unique: in every reachable state no two stored
\* orders have the same locator, for any number of order creations.
C15_LocatorsUnique ==
    \A a \in DOMAIN orders, b \in DOMAIN orders :
        orders[a].locator = orders[b].locator => a = b

----------------------------------------------------------------------------
(* Listing and pagination *)

RECURSIVE SortedIds(_)
SortedIds(S) ==
    IF S = {} THEN <<>>
    ELSE LET m == CHOOSE x \in S : \A y \in S : x <= y
         IN  <<m>> \o SortedIds(S \ {m})

\* BaseRepository.get_all: select(model).offset(offset).limit(limit), the rows
\* in the order of their ids
get_all(rows, offset, limit) ==
    LET ids == SortedIds(DOMAIN rows)
        last == IF offset + limit < Len(ids) THEN offset + limit
                ELSE Len(ids)
    IN  [i \in 1..(IF last > offset THEN last - offset ELSE 0) |->
            rows[ids[offset + i]]]

\* repository.get_total_count
get_total_count(rows) == Cardinality(DOMAIN rows)

\* an element of a cached list: a JSON object (json.loads of model_dump_json,
\* or model_dump(mode='json')), or a JSON string (model_dump_json itself,
\* encoded once more by json.dumps)
JsonObject(row) == <<"object", row>>
JsonString(row) == <<"string", row>>

\* Model.model_validate of one element of json.loads(data): a dict gives the
\* model, a str raises ValidationError
model_validate(element) ==
    IF element[1] = "object" THEN Some(element[2]) ELSE None

\* redis.get of a list key, the [] of a missing key included
cached_list(cache, key) == IF key \in DOMAIN cache THEN cache[key] ELSE <<>>

\* OrderService.to_order_out
to_order_out(order) ==
    [id |-> order.id, status |-> order.status, total |-> order.total,
     created_at |-> order.created_at, updated_at |-> order.updated_at,
     locator |-> order.locator, products |-> order.products,
     notes |-> order.notes, rating |-> order.rating]

\* UserService.to_user_out
to_user_out(user) ==
    [id |-> user.id, username |-> user.username,
     full_name |-> user.full_name, email |-> user.email, role |-> user.role,
     created_at |-> user.created_at, updated_at |-> user.updated_at]

\* ProductService.to_product_out
to_product_out(product) ==
    [id |-> product.id, name |-> product.name, price |-> product.price,
     description |-> product.description, category |-> product.category,
     created_at |-> product.created_at, updated_at |-> product.updated_at]

Pagination(offset, limit, total_count, total_pages, page) ==
    [offset |-> offset, limit |-> limit, total_count |-> total_count,
     total_pages |-> total_pages, page |-> page]

\* Pagination.create (resources/shared/schemas)
Pagination_create(offset, limit, total_count) ==
    Pagination(offset, limit, total_count,
               (total_count + limit - 1) \div limit, (offset \div limit) + 1)

\* OrderService.get_pagination
OrderService_get_pagination(offset, limit) ==
    LET total_count == get_total_count(orders)
    IN  Pagination(offset, limit, total_count,
                   IF limit # 0 THEN (total_count + limit - 1) \div limit
                   ELSE 1,
                   IF limit # 0 THEN (offset \div limit) + 1 ELSE 1)

\* UserService.get_pagination
UserService_get_pagination(offset, limit) ==
    LET total == get_total_count(users)
    IN  Pagination(offset, limit, total,
                   IF limit # 0
                   THEN (total \div limit)
                          + (IF total % limit # 0 THEN 1 ELSE 0)
                   ELSE 1,
                   IF limit # 0 THEN (offset \div limit) + 1 ELSE 1)

\* ProductService.get_pagination, with the defaults of its signature
ProductService_get_pagination_defaults(offset, limit) ==
    Pagination(offset, limit, 0, 0, 1)

\* the Sequence a list call returns, validated element by element
Validated(data) == [i \in 1..Len(data) |-> model_validate(data[i])]
ValidationError(data) == \E i \in 1..Len(data) : model_validate(data[i]) = None

ListResult(op, offset, limit, status, items, pagination) ==
    [op |-> op, offset |-> offset, limit |-> limit, status |-> status,
     items |-> items, pagination |-> pagination]

\* OrderService.list_orders, presented by to_order_list
OrderService_list_orders(offset, limit) ==
    /\ LET data == cached_list(orderListCache, <<offset, limit>>)
           rows == get_all(orders, offset, limit)
       IN  IF ValidationError(data)
           THEN /\ res' = ListResult("list_orders", offset, limit,
                                     INTERNAL_SERVER_ERROR, <<>>, None)
                /\ trace' = <<"cache.list">>
                /\ UNCHANGED orderListCache
           ELSE IF data # <<>>
           THEN /\ res' = ListResult("list_orders", offset, limit, OK,
                            [i \in 1..Len(data) |->
                                to_order_out(Validated(data)[i][1])],
                            Some(OrderService_get_pagination(offset, limit)))
                /\ trace' = <<"cache.list", "repo.get_total_count">>
                /\ UNCHANGED orderListCache
           ELSE /\ orderListCache' =
                      Put(orderListCache, <<offset, limit>>,
                          [i \in 1..Len(rows) |->
                              JsonObject(OrderFromJson(rows[i]))])
                /\ res' = ListResult("list_orders", offset, limit, OK,
                            [i \in 1..Len(rows) |-> to_order_out(rows[i])],
                            Some(OrderService_get_pagination(offset, limit)))
                /\ trace' = <<"cache.list", "repo.get_all", "cache.set_list",
                              "repo.get_total_count">>
    /\ UNCHANGED <<orders, nextOrderId, orderCache>>
    /\ UNCHANGED <<productVars, userVars, authVars, auxVars>>

\* UserService.list_users, presented by to_user_list
UserService_list_users(offset, limit) ==
    /\ LET data == cached_list(userListCache, <<offset, limit>>)
           rows == get_all(users, offset, limit)
       IN  IF ValidationError(data)
           THEN /\ res' = ListResult("list_users", offset, limit,
                                     INTERNAL_SERVER_ERROR, <<>>, None)
                /\ trace' = <<"cache.list">>
                /\ UNCHANGED userListCache
           ELSE IF data # <<>>
           THEN /\ res' = ListResult("list_users", offset, limit, OK,
                            [i \in 1..Len(data) |->
                                to_user_out(Validated(data)[i][1])],
                            Some(UserService_get_pagination(offset, limit)))
                /\ trace' = <<"cache.list", "repo.get_total_count">>
                /\ UNCHANGED userListCache
           ELSE /\ userListCache' =
                      Put(userListCache, <<offset, limit>>,
                          [i \in 1..Len(rows) |-> JsonString(rows[i])])
                /\ res' = ListResult("list_users", offset, limit, OK,
                            [i \in 1..Len(rows) |-> to_user_out(rows[i])],
                            Some(UserService_get_pagination(offset, limit)))
                /\ trace' = <<"cache.list", "repo.get_all", "cache.set_list",
                              "repo.get_total_count">>
    /\ UNCHANGED <<users, nextUserId, userCache, lastPassword>>
    /\ UNCHANGED <<orderVars, productVars, authVars, auxVars>>

\* ProductService.list_products: on a cache miss ProductRepository.get_all
\* returns a ProductList, and set_product_list, iterating it, meets the
\* (name, value) pairs of its fields and raises AttributeError
ProductService_list_products(offset, limit) ==
    /\ LET data == cached_list(productListCache, <<offset, limit>>)
       IN  IF ValidationError(data)
           THEN /\ res' = ListResult("list_products", offset, limit,
                                     INTERNAL_SERVER_ERROR, <<>>, None)
                /\ trace' = <<"cache.list">>
           ELSE IF data # <<>>
           THEN /\ res' = ListResult("list_products", offset, limit, OK,
                            [i \in 1..Len(data) |->
                                to_product_out(Validated(data)[i][1])],
                            Some(ProductService_get_pagination_defaults(
                                     offset, limit)))
                /\ trace' = <<"cache.list">>
           ELSE /\ res' = ListResult("list_products", offset, limit,
                                     INTERNAL_SERVER_ERROR, <<>>, None)
                /\ trace' = <<"cache.list", "repo.get_total_count",
                              "repo.get_all">>
    /\ UNCHANGED <<orderVars, productVars, userVars, authVars, auxVars>>

\* ProductService.to_product_list, handed the products of the page
ProductService_to_product_list(offset, limit) ==
    /\ LET rows == get_all(products, offset, limit)
       IN  res' = ListResult("to_product_list", offset, limit, OK,
                     [i \in 1..Len(rows) |-> to_product_out(rows[i])],
                     Some(ProductService_get_pagination_defaults(
                              offset, limit)))
    /\ trace' = <<>>
    /\ UNCHANGED <<orderVars, productVars, userVars, authVars, auxVars>>

\* UserService.create_user, entered with a CreateUserDTO
UserService_create_user(body, salt, cap) ==
    /\ nextUserId <= cap
    /\ ValidCreateUserBody(body)
    /\ LET dto == CreateUserDTO(body, salt)
       IN  IF UserCreateIntegrityError(dto)
           THEN /\ res' = [op |-> "service.create_user",
                           status |-> INTERNAL_SERVER_ERROR, id |-> NoId]
                /\ trace' = <<"repo.create">>
                /\ UNCHANGED userVars
           ELSE /\ users' = Put(users, nextUserId,
                                UserFromDTO(dto, nextUserId))
                /\ nextUserId' = nextUserId + 1
                /\ lastPassword' = Put(lastPassword, nextUserId,
                                       body.password)
                /\ userListCache' = invalidate_list(userListCache)
                /\ userCache' = Drop(userCache, nextUserId)
                /\ res' = [op |-> "service.create_user",
                           status |-> CREATED, id |-> nextUserId]
                /\ trace' = <<"repo.create", "cache.invalidate_list",
                              "cache.invalidate">>
    /\ UNCHANGED <<orderVars, productVars, authVars, auxVars>>

\* the list keys live 60 seconds (setex): a key of the order or of the user
\* list cache expires
redis_expire_list(name, key) ==
    /\ name = "orders" => key \in DOMAIN orderListCache
    /\ name = "users" => key \in DOMAIN userListCache
    /\ orderListCache' = IF name = "orders" THEN Drop(orderListCache, key)
                         ELSE orderListCache
    /\ userListCache' = IF name = "users" THEN Drop(userListCache, key)
                        ELSE userListCache
    /\ UNCHANGED <<orders, nextOrderId, orderCache, productVars, users,
                   nextUserId, userCache, lastPassword, authVars, res, trace,
                   auxVars>>

\* the pages asked for: (offset, limit)
PageRequests == {<<0, 1>>, <<1, 1>>, <<0, 2>>}
ListCacheNames == {"orders", "users"}

NextListing ==
    \/ \E dto \in CatalogueDTOs :
         ProductService_create_product(dto, CatalogueSize)
    \/ \E dto \in StampedOrderDTOs :
         OrderService_create_order(dto, ATTENDANT, "A000", MaxListed)
    \/ \E body \in AuthUserBodies :
         UserService_create_user(body, 1, MaxListed)
    \/ \E pg \in PageRequests : OrderService_list_orders(pg[1], pg[2])
    \/ \E pg \in PageRequests : UserService_list_users(pg[1], pg[2])
    \/ \E pg \in PageRequests : ProductService_list_products(pg[1], pg[2])
    \/ \E pg \in PageRequests : ProductService_to_product_list(pg[1], pg[2])
    \/ \E name \in ListCacheNames, pg \in PageRequests :
         redis_expire_list(name, pg)

SpecListing == Init /\ [][NextListing]_vars

ListOps == {"list_orders", "list_users", "list_products", "to_product_list"}

\* a list call that follows a list call of the same service for the same
\* page, with nothing but the expiry of cache keys in between
C16_Step ==
    (/\ res.op \in ListOps
     /\ res'.op = res.op
     /\ res'.offset = res.offset
     /\ res'.limit = res.limit)
        => /\ res'.status = res.status
           /\ res'.items = res.items
           /\ res'.pagination = res.pagination

\* C16: listing is idempotent: two consecutive list(offset, limit) calls on
\* the same service with no write in between return identical items and
\* identical pagination metadata, whether the second call is served from the
\* cache or from the repository (including when the page is empty or the
\* cache entry expired in between).
C16_ListIdempotent == [][C16_Step]_vars

\* ceil(n / d) for d >= 1
Ceil(n, d) == CHOOSE k \in 0..n : k * d >= n /\ (k = 0 \/ (k - 1) * d < n)

\* the rows of the repository a list call counts
RepositoryOf(op) ==
    IF op = "list_orders" THEN orders
    ELSE IF op = "list_users" THEN users
    ELSE products

C17_Step ==
    (res'.op \in ListOps /\ res'.status = OK)
        => LET pg == res'.pagination[1]
               n == Cardinality(DOMAIN RepositoryOf(res'.op))
           IN  /\ pg.total_count = n
               /\ pg.total_pages = Ceil(n, res'.limit)
               /\ pg.page = (res'.offset \div res'.limit) + 1
               /\ pg = Pagination_create(res'.offset, res'.limit, n)

\* C17: for every offset >= 0, limit >= 1 and every service (User, Product,
\* Order), the pagination block of a list result has total_count equal to the
\* number of entities currently in the repository (also when the items come
\* from a stale cache page), total_pages = ceil(total_count / limit) and
\* page = floor(offset / limit) + 1; all implementations of the formula
\* agree.
C17_Pagination == [][C17_Step]_vars

----------------------------------------------------------------------------
(* Setup: the first user *)

\* setup controller, POST /setup: refused once a user is stored; the role of
\* the body is overwritten with admin
create_first_user(body, salt, cap) ==
    /\ nextUserId <= cap
    /\ ValidCreateUserBody(body)
    /\ LET dto == CreateUserDTO(body, salt)
           user_data == [dto EXCEPT !.role = ADMIN]
       IN  IF get_total_count(users) > 0
           THEN /\ res' = [op |-> "create_first_user", status |-> FORBIDDEN,
                           id |-> NoId]
                /\ trace' = <<"repo.get_total_count">>
                /\ UNCHANGED <<users, nextUserId, lastPassword>>
           ELSE /\ users' = Put(users, nextUserId,
                                UserFromDTO(user_data, nextUserId))
                /\ nextUserId' = nextUserId + 1
                /\ lastPassword' = Put(lastPassword, nextUserId,
                                       body.password)
                /\ res' = [op |-> "create_first_user", status |-> CREATED,
                           id |-> nextUserId]
                /\ trace' = <<"repo.get_total_count", "repo.create">>
    /\ UNCHANGED <<userCache, userListCache>>
    /\ UNCHANGED <<orderVars, productVars, authVars, auxVars>>

\* POST /setup bodies: the role asked for is admin or another one
SetupBodies ==
    {[username |-> u, email |-> EmailOf(u), password |-> "secret1",
      role |-> r, full_name |-> None] :
        u \in Usernames, r \in {ADMIN, KITCHEN}}

\* the roles an authenticated caller can have: those of the stored users
StoredRoles == {users[id].role : id \in DOMAIN users}

NextSetup ==
    \/ \E body \in SetupBodies, salt \in Salts :
         create_first_user(body, salt, MaxUsers)
    \/ \E body \in AuthUserBodies, salt \in Salts, role \in StoredRoles :
         user_controller_create_user(body, salt, role, MaxUsers)
    \/ \E id \in 1..MaxUsers, role \in StoredRoles :
         user_controller_delete_user(id, role)
    \/ \E role \in StoredRoles : user_controller_fetch_users(0, 100, role)
    \/ \E id \in 1..MaxUsers, role \in StoredRoles :
         user_controller_fetch_user_by_id(id, role)

SpecSetup == Init /\ [][NextSetup]_vars

\* ids are never reused and, callers having the role of a stored user, the
\* first user can only come from the setup: a setup call succeeded before
SetupSucceededBefore == nextUserId > 1

C19_Step ==
    res'.op = "create_first_user"
        => /\ res'.status = CREATED
                => /\ users = EmptyMap
                   /\ users'[res'.id].role = ADMIN
           /\ SetupSucceededBefore => res'.status = FORBIDDEN

\* C19: the setup operation (create_first_user) can be used only once: it
\* succeeds only when no user is stored, the user it creates has role admin
\* whatever role the request carries, and after one successful call every
\* later call fails with Forbidden, under any sequence of user create/delete
\* operations.
C19_SetupOnce == [][C19_Step]_vars

----------------------------------------------------------------------------
(* Default users: UserService.create_default_users *)

\* the members of the enum UserRole
UserRoleMembers == {"KITCHEN", "ATTENDANT", "ADMIN"}

\* UserRole.<member> raises AttributeError
AttributeError(member) == member \notin UserRoleMembers

\* the two fixed accounts, as the bodies their CreateUserDTOs are built from
admin_user ==
    [username |-> "admin", full_name |-> Some("Administrator"),
     email |-> "admin@example.com", password |-> "admin123456",
     role |-> ADMIN]
website_user ==
    [username |-> "website", full_name |-> Some("Website Integration"),
     email |-> "website@example.com", password |-> "website123456",
     role |-> OtherRole]

\* an entry of created_users
CreatedEntry(created, plaintext) ==
    [username |-> created.username, email |-> created.email,
     role |-> created.role, password |-> plaintext]

\* UserService.create_default_users: the admin is created when it is missing;
\* the integration account, when missing, is built with UserRole.WEBSITE
UserService_create_default_users(salt, cap) ==
    /\ nextUserId <= cap
    /\ LET admin_exists == get_by_username("admin") # {}
           website_exists == get_by_username("website") # {}
           dto == CreateUserDTO(admin_user, salt)
           created == UserFromDTO(dto, nextUserId)
       IN  IF ~admin_exists /\ UserCreateIntegrityError(dto)
           THEN /\ res' = [op |-> "create_default_users",
                           status |-> INTERNAL_SERVER_ERROR,
                           created_users |-> <<>>,
                           admin_exists |-> admin_exists,
                           website_exists |-> website_exists]
                /\ trace' = <<"repo.get_by_username", "repo.create">>
                /\ UNCHANGED userVars
           ELSE /\ IF ~admin_exists
                   THEN /\ users' = Put(users, nextUserId, created)
                        /\ nextUserId' = nextUserId + 1
                        /\ lastPassword' = Put(lastPassword, nextUserId,
                                               admin_user.password)
                        /\ userListCache' = invalidate_list(userListCache)
                        /\ userCache' = Drop(userCache, nextUserId)
                   ELSE UNCHANGED userVars
                /\ res' = [op |-> "create_default_users",
                           status |->
                               IF ~website_exists /\ AttributeError("WEBSITE")
                               THEN INTERNAL_SERVER_ERROR
                               ELSE IF admin_exists /\ website_exists
                               THEN CONFLICT
                               ELSE OK,
                           created_users |->
                               IF ~website_exists /\ AttributeError("WEBSITE")
                               THEN <<>>
                               ELSE IF ~admin_exists
                               THEN <<CreatedEntry(created,
                                                   admin_user.password)>>
                               ELSE <<>>,
                           admin_exists |-> admin_exists,
                           website_exists |-> website_exists]
                /\ trace' = <<"repo.get_by_username">>
                              \o (IF ~admin_exists THEN <<"repo.create">>
                                  ELSE <<>>)
    /\ UNCHANGED <<orderVars, productVars, authVars, auxVars>>

\* UserService.delete_user, on a stored user
UserService_delete_user(user_id) ==
    /\ user_exists(user_id)
    /\ users' = Drop(users, user_id)
    /\ lastPassword' = Drop(lastPassword, user_id)
    /\ userCache' = Drop(userCache, user_id)
    /\ userListCache' = invalidate_list(userListCache)
    /\ res' = [op |-> "service.delete_user", status |-> OK, id |-> user_id]
    /\ trace' = <<"repo.delete", "cache.invalidate", "cache.invalidate_list">>
    /\ UNCHANGED nextUserId
    /\ UNCHANGED <<orderVars, productVars, authVars, auxVars>>

\* bodies of users created by hand: the usernames of the fixed accounts,
\* another one, and one that holds the email of the fixed admin
SeedUserBodies ==
    {[username |-> "admin", email |-> "admin@example.com",
      password |-> "secret1", role |-> ADMIN, full_name |-> None],
     [username |-> "website", email |-> "website@example.com",
      password |-> "secret1", role |-> KITCHEN, full_name |-> None],
     [username |-> "alice", email |-> "alice@example.com",
      password |-> "secret1", role |-> KITCHEN, full_name |-> None],
     [username |-> "bob", email |-> "admin@example.com",
      password |-> "secret1", role |-> KITCHEN, full_name |-> None]}

NextDefaultUsers ==
    \/ \E salt \in Salts : UserService_create_default_users(salt, MaxUsers)
    \/ \E body \in SeedUserBodies, salt \in Salts :
         UserService_create_user(body, salt, MaxUsers)
    \/ \E id \in 1..MaxUsers : UserService_delete_user(id)

SpecDefaultUsers == Init /\ [][NextDefaultUsers]_vars

\* the accounts a step added to the repository
NewUsers == {users'[id] : id \in (DOMAIN users') \ (DOMAIN users)}

C20_Step ==
    res'.op = "create_default_users"
        => /\ (res'.admin_exists /\ res'.website_exists)
                => (res'.status = CONFLICT /\ users' = users)
           /\ (~res'.admin_exists /\ ~res'.website_exists)
                => /\ res'.status = OK
                   /\ {u.username : u \in NewUsers} = {"admin", "website"}
           /\ (res'.admin_exists # res'.website_exists) => users' = users
           /\ res'.status = OK
                => /\ Len(res'.created_users) = Cardinality(NewUsers)
                   /\ \A u \in NewUsers :
                        \E i \in 1..Len(res'.created_users) :
                           /\ res'.created_users[i].username = u.username
                           /\ res'.created_users[i].password
                                 = lastPassword'[u.id]

\* C20: default-bootstrap (create_default_users) creates the fixed admin
\* account and the fixed integration account only when neither of them
\* already exists; when both already exist it fails with Conflict and creates
\* nothing; every successful call returns exactly the accounts created by
\* that call together with their plaintext passwords.
C20_DefaultUsers == [][C20_Step]_vars

----------------------------------------------------------------------------
(* Deletion and the status history of an order *)

\* the orders a step removes from the store
Removed == (DOMAIN orders) \ (DOMAIN orders')

\* C28 as stated: an order that has left the pending status (it is or has
\* been processing, completed or cancelled) can never be deleted afterwards,
\* whatever sequence of update_order and delete_order requests follows.
C28_AsStated == [][Removed \cap leftPending = {}]_vars

C28_Step ==
    /\ \A id \in Removed : orders[id].status = PENDING
    /\ (res'.op \in {"delete_order", "controller.delete_order"}
          /\ res'.before # None
          /\ res'.before[1].status # PENDING)
          => res'.id \in DOMAIN orders'

\* C28, amended: an order can be deleted only while its stored status is
\* pending: in every sequence of update_order and delete_order requests, a
\* delete_order on an order whose stored status is processing, completed or
\* cancelled leaves it stored; an order that left pending and was set back
\* to pending by update_order can be deleted again.
C28_CurrentStatus == [][C28_Step]_vars

\* an order that had left pending, was set back to pending and is deleted
C28_Witness_DeletedAfterReturn ==
    /\ res.op = "delete_order"
    /\ res.status = OK
    /\ res.id \in leftPending
    /\ res.id \notin DOMAIN orders

----------------------------------------------------------------------------
(* Requests in flight: delete_order against update_order *)

\* the names of the requests that can be in flight
FlightIds == 1..MaxFlights

\* the caller of delete_order loads the order it will hand to the service
\* (repository.get_by_id in the session of the request)
load_order(p, order_id) ==
    /\ p \notin DOMAIN flight
    /\ order_exists(order_id)
    /\ flight' = Put(flight, p, [op |-> "delete_order",
                                 order |-> orders[order_id]])
    /\ UNCHANGED <<orderVars, productVars, userVars, authVars, res, trace,
                   leftPending>>

\* OrderService.delete_order(order, role) on the order loaded before: the
\* status is read from the loaded entity, repository.delete acts on the
\* table; the DELETE of a row that is gone raises (StaleDataError) and is
\* rolled back
OrderService_delete_order_loaded(p, role) ==
    /\ p \in DOMAIN flight
    /\ flight[p].op = "delete_order"
    /\ LET order == flight[p].order
       IN  IF role \notin OrderWriteRoles
           THEN /\ res' = [op |-> "delete_order", role |-> role,
                           id |-> order.id, before |-> Some(order),
                           status |-> FORBIDDEN]
                /\ trace' = <<>>
                /\ UNCHANGED orderVars
           ELSE IF ~order_is_pending(order)
           THEN /\ res' = [op |-> "delete_order", role |-> role,
                           id |-> order.id, before |-> Some(order),
                           status |-> BAD_REQUEST]
                /\ trace' = <<>>
                /\ UNCHANGED orderVars
           ELSE IF ~order_exists(order.id)
           THEN /\ res' = [op |-> "delete_order", role |-> role,
                           id |-> order.id, before |-> Some(order),
                           status |-> INTERNAL_SERVER_ERROR]
                /\ trace' = <<"repo.delete">>
                /\ UNCHANGED orderVars
           ELSE /\ orders' = Drop(orders, order.id)
                /\ orderCache' = Drop(orderCache, order.id)
                /\ orderListCache' = invalidate_list(orderListCache)
                /\ res' = [op |-> "delete_order", role |-> role,
                           id |-> order.id, before |-> Some(order),
                           status |-> OK]
                /\ trace' = <<"repo.delete", "cache.invalidate",
                              "cache.invalidate_list">>
                /\ UNCHANGED nextOrderId
    /\ flight' = Drop(flight, p)
    /\ UNCHANGED <<productVars, userVars, authVars, leftPending>>

NextOrderRace ==
    \/ \E dto \in CatalogueDTOs :
         product_controller_create_product(dto, ADMIN, CatalogueSize)
    \/ \E dto \in StampedOrderDTOs :
         OrderService_create_order(dto, ATTENDANT, "A000", MaxOrders)
    \/ \E id \in DOMAIN orders, dto \in StatusUpdateDTOs :
         OrderService_update_order(id, dto, KITCHEN)
    \/ \E p \in FlightIds, id \in DOMAIN orders : load_order(p, id)
    \/ \E p \in FlightIds, role \in {ATTENDANT, KITCHEN} :
         OrderService_delete_order_loaded(p, role)

SpecOrderRace == Init /\ [][NextOrderRace]_vars

\* C21: under any interleaving of concurrent update_order and delete_order
\* requests on the same order, no order is ever removed from the store while
\* its stored status is not pending: the status check of delete and the
\* removal act on the same state.
C21_NoRaceDelete ==
    [][\A id \in DOMAIN orders :
          orders[id].status # PENDING => id \in DOMAIN orders']_vars

----------------------------------------------------------------------------
(* Requests in flight: a list call against a mutation *)

\* OrderService.list_orders up to repository.get_all: the page is not in the
\* cache and the rows are read
OrderService_list_orders_read(p, offset, limit) ==
    /\ p \notin DOMAIN flight
    /\ cached_list(orderListCache, <<offset, limit>>) = <<>>
    /\ flight' = Put(flight, p, [op |-> "list_orders", offset |-> offset,
                                 limit |-> limit,
                                 rows |-> get_all(orders, offset, limit)])
    /\ UNCHANGED <<orderVars, productVars, userVars, authVars, res, trace,
                   leftPending>>

\* OrderService.list_orders from set_order_list on: the rows read before are
\* stored under the page's key and returned
OrderService_list_orders_fill(p) ==
    /\ p \in DOMAIN flight
    /\ flight[p].op = "list_orders"
    /\ LET offset == flight[p].offset
           limit == flight[p].limit
           rows == flight[p].rows
       IN  /\ orderListCache' =
                 Put(orderListCache, <<offset, limit>>,
                     [i \in 1..Len(rows) |->
                         JsonObject(OrderFromJson(rows[i]))])
           /\ res' = ListResult("list_orders", offset, limit, OK,
                       [i \in 1..Len(rows) |-> to_order_out(rows[i])],
                       Some(OrderService_get_pagination(offset, limit)))
           /\ trace' = <<"cache.set_list", "repo.get_total_count">>
    /\ flight' = Drop(flight, p)
    /\ UNCHANGED <<orders, nextOrderId, orderCache>>
    /\ UNCHANGED <<productVars, userVars, authVars, leftPending>>

\* PATCH bodies of the runs with a reader in flight
RaceUpdateDTOs == {[status |-> Some(COMPLETED)], [notes |-> Some("extra")]}

NextCacheRace ==
    \/ \E dto \in CatalogueDTOs :
         product_controller_create_product(dto, ADMIN, CatalogueSize)
    \/ \E dto \in StampedOrderDTOs :
         OrderService_create_order(dto, ATTENDANT, "A000", MaxListed)
    \/ \E id \in DOMAIN orders, dto \in RaceUpdateDTOs :
         OrderService_update_order(id, dto, KITCHEN)
    \/ \E id \in DOMAIN orders : OrderService_delete_order(id, ATTENDANT)
    \/ \E pg \in PageRequests : OrderService_list_orders(pg[1], pg[2])
    \/ \E p \in FlightIds, pg \in PageRequests :
         OrderService_list_orders_read(p, pg[1], pg[2])
    \/ \E p \in FlightIds : OrderService_list_orders_fill(p)

SpecCacheRace == Init /\ [][NextCacheRace]_vars

\* the columns of the rows of a page (the items of an order are no column)
PageColumns(items) == [i \in 1..Len(items) |-> OrderFromJson(items[i])]

\* a list call that starts, and ends, after every mutation has returned
\* gives the rows the repository holds
C22_Step ==
    (res'.op = "list_orders" /\ res'.status = OK /\ flight' = flight)
        => PageColumns(res'.items)
             = PageColumns(get_all(orders, res'.offset, res'.limit))

\* C22: once a service mutation (create, update or delete) has returned,
\* every list or get_by_id call that starts afterwards returns post-mutation
\* data, even when other reads were in flight during the mutation: a reader
\* that missed the cache and read the repository before the write cannot
\* leave pre-mutation data in the cache after the mutation's invalidation.
C22_NoStaleFill == [][C22_Step]_vars

----------------------------------------------------------------------------
(* The order of the steps of a service create *)

CreateOps == {"create_order", "service.create_product", "service.create_user"}

Invalidations == {"cache.invalidate", "cache.invalidate_list"}

\* C24: in every service create the steps run in the order authorization
\* check, construct entity, persist, invalidate: the invalidation of the list
\* pages and of the new id's key happens only after the entity has been
\* persisted, never before.
C24_PersistThenInvalidate ==
    (res.op \in CreateOps /\ res.status = CREATED)
        => \A i, j \in 1..Len(trace) :
              (trace[i] \in Invalidations /\ trace[j] = "repo.create")
                  => j < i

----------------------------------------------------------------------------
(* The single-item caches *)

\* redis.get of a single-item key inside the cache classes' get_*_by_id: the
\* call raises (the connection is down), or gives the stored string, or None
redis_get_error_as_miss(cache, key, raises) ==
    [raised |-> FALSE,
     data |-> IF ~raises /\ key \in DOMAIN cache THEN Some(cache[key])
              ELSE None]

redis_get(cache, key, raises) ==
    [raised |-> raises,
     data |-> IF ~raises /\ key \in DOMAIN cache THEN Some(cache[key])
              ELSE None]

\* which cache call of a request raises: none, the first or the second
Fails == 0..2

GetResult(op, id, fails, status, hit, item) ==
    [op |-> op, id |-> id, fails |-> fails, status |-> status, hit |-> hit,
     item |-> item]

\* UserService.get_user_by_id; set_user stores json.dumps(model_dump_json()),
\* a JSON string, which json.loads gives back as a str
UserService_get_user_by_id(user_id, fails) ==
    /\ LET got == redis_get(userCache, user_id, fails = 1)
           op == "service.get_user_by_id"
       IN  IF got.raised
           THEN /\ res' = GetResult(op, user_id, fails,
                                    INTERNAL_SERVER_ERROR, FALSE, None)
                /\ trace' = <<"cache.get">>
                /\ UNCHANGED userCache
           ELSE IF got.data # None
           THEN /\ res' = IF model_validate(got.data[1]) = None
                          THEN GetResult(op, user_id, fails,
                                         INTERNAL_SERVER_ERROR, TRUE, None)
                          ELSE GetResult(op, user_id, fails, OK, TRUE,
                                         model_validate(got.data[1]))
                /\ trace' = <<"cache.get">>
                /\ UNCHANGED userCache
           ELSE IF ~user_exists(user_id)
           THEN /\ res' = GetResult(op, user_id, fails, NOT_FOUND, FALSE,
                                    None)
                /\ trace' = <<"cache.get", "repo.get_by_id">>
                /\ UNCHANGED userCache
           ELSE IF fails = 2
           THEN /\ res' = GetResult(op, user_id, fails,
                                    INTERNAL_SERVER_ERROR, FALSE, None)
                /\ trace' = <<"cache.get", "repo.get_by_id", "cache.set">>
                /\ UNCHANGED userCache
           ELSE /\ userCache' = Put(userCache, user_id,
                                    JsonString(users[user_id]))
                /\ res' = GetResult(op, user_id, fails, OK, FALSE,
                                    Some(users[user_id]))
                /\ trace' = <<"cache.get", "repo.get_by_id", "cache.set">>
    /\ UNCHANGED <<users, nextUserId, userListCache, lastPassword>>
    /\ UNCHANGED <<orderVars, productVars, authVars, auxVars>>

\* ProductService.get_product_by_id; set_product stores model_dump_json(),
\* which json.loads gives back as a dict
ProductService_get_product_by_id(product_id, fails) ==
    /\ LET got == redis_get(productCache, product_id, fails = 1)
           op == "service.get_product_by_id"
       IN  IF got.raised
           THEN /\ res' = GetResult(op, product_id, fails,
                                    INTERNAL_SERVER_ERROR, FALSE, None)
                /\ trace' = <<"cache.get">>
                /\ UNCHANGED productCache
           ELSE IF got.data # None
           THEN /\ res' = IF model_validate(got.data[1]) = None
                          THEN GetResult(op, product_id, fails,
                                         INTERNAL_SERVER_ERROR, TRUE, None)
                          ELSE GetResult(op, product_id, fails, OK, TRUE,
                                         model_validate(got.data[1]))
                /\ trace' = <<"cache.get">>
                /\ UNCHANGED productCache
           ELSE IF ~product_exists(product_id)
           THEN /\ res' = GetResult(op, product_id, fails, NOT_FOUND, FALSE,
                                    None)
                /\ trace' = <<"cache.get", "repo.get_by_id">>
                /\ UNCHANGED productCache
           ELSE IF fails = 2
           THEN /\ res' = GetResult(op, product_id, fails,
                                    INTERNAL_SERVER_ERROR, FALSE, None)
                /\ trace' = <<"cache.get", "repo.get_by_id", "cache.set">>
                /\ UNCHANGED productCache
           ELSE /\ productCache' = Put(productCache, product_id,
                                       JsonObject(products[product_id]))
                /\ res' = GetResult(op, product_id, fails, OK, FALSE,
                                    Some(products[product_id]))
                /\ trace' = <<"cache.get", "repo.get_by_id", "cache.set">>
    /\ UNCHANGED <<products, nextProductId, productListCache>>
    /\ UNCHANGED <<orderVars, userVars, authVars, auxVars>>

----------------------------------------------------------------------------
(* Service calls with a cache call that may raise *)

\* OrderService.get_order_by_id, the fails-th cache call raising
OrderService_get_order_by_id_redis(id, fails) ==
    /\ LET got == redis_get(orderCache, id, fails = 1)
           op == "service.get_order_by_id"
       IN  IF got.raised
           THEN /\ res' = GetResult(op, id, fails, INTERNAL_SERVER_ERROR,
                                    FALSE, None)
                /\ trace' = <<"cache.get">>
                /\ UNCHANGED orderCache
           ELSE IF got.data # None
           THEN /\ res' = GetResult(op, id, fails, OK, TRUE,
                                    Some(got.data[1]))
                /\ trace' = <<"cache.get">>
                /\ UNCHANGED orderCache
           ELSE IF ~order_exists(id)
           THEN /\ res' = GetResult(op, id, fails,
                                    IF fails = 2 THEN INTERNAL_SERVER_ERROR
                                    ELSE NOT_FOUND, FALSE, None)
                /\ trace' = <<"cache.get", "repo.get_by_id",
                              "cache.invalidate">>
                /\ orderCache' = IF fails = 2 THEN orderCache
                                 ELSE Drop(orderCache, id)
           ELSE /\ res' = GetResult(op, id, fails, OK, FALSE,
                                    Some(orders[id]))
                /\ trace' = <<"cache.get", "repo.get_by_id">>
                /\ UNCHANGED orderCache
    /\ UNCHANGED <<orders, nextOrderId, orderListCache>>
    /\ UNCHANGED <<productVars, userVars, authVars, auxVars>>

\* OrderService.list_orders, the fails-th cache call raising
OrderService_list_orders_redis(offset, limit, fails) ==
    /\ LET got == redis_get(orderListCache, <<offset, limit>>, fails = 1)
           data == IF got.data = None THEN <<>> ELSE got.data[1]
           rows == get_all(orders, offset, limit)
           op == "service.list_orders"
       IN  IF got.raised \/ ValidationError(data)
           THEN /\ res' = [op |-> op, offset |-> offset, limit |-> limit,
                           fails |-> fails, items |-> <<>>,
                           status |-> INTERNAL_SERVER_ERROR]
                /\ trace' = <<"cache.list">>
                /\ UNCHANGED orderListCache
           ELSE IF data # <<>>
           THEN /\ res' = [op |-> op, offset |-> offset, limit |-> limit,
                           fails |-> fails, status |-> OK,
                           items |-> [i \in 1..Len(data) |->
                                         Validated(data)[i][1]]]
                /\ trace' = <<"cache.list">>
                /\ UNCHANGED orderListCache
           ELSE IF fails = 2
           THEN /\ res' = [op |-> op, offset |-> offset, limit |-> limit,
                           fails |-> fails, items |-> <<>>,
                           status |-> INTERNAL_SERVER_ERROR]
                /\ trace' = <<"cache.list", "repo.get_all", "cache.set_list">>
                /\ UNCHANGED orderListCache
           ELSE /\ orderListCache' =
                      Put(orderListCache, <<offset, limit>>,
                          [i \in 1..Len(rows) |->
                              JsonObject(OrderFromJson(rows[i]))])
                /\ res' = [op |-> op, offset |-> offset, limit |-> limit,
                           fails |-> fails, status |-> OK, items |-> rows]
                /\ trace' = <<"cache.list", "repo.get_all", "cache.set_list">>
    /\ UNCHANGED <<orders, nextOrderId, orderCache>>
    /\ UNCHANGED <<productVars, userVars, authVars, auxVars>>

\* UserService.update_user, on a stored user, the fails-th cache call raising
UserService_update_user(user_id, body, salt, fails) ==
    /\ user_exists(user_id)
    /\ ValidUpdateUserBody(body)
    /\ LET update_data == UpdateUserDTO(body, salt)
           op == "service.update_user"
       IN  IF UserUpdateIntegrityError(user_id, update_data)
           THEN /\ res' = [op |-> op, id |-> user_id, fails |-> fails,
                           status |-> INTERNAL_SERVER_ERROR]
                /\ trace' = <<"repo.update">>
                /\ UNCHANGED <<users, lastPassword, userCache, userListCache>>
           ELSE /\ users' = [users EXCEPT
                               ![user_id] = RepoUpdate(users[user_id],
                                                       update_data)]
                /\ lastPassword' =
                      IF "password" \in DOMAIN body /\ body.password # None
                      THEN [lastPassword EXCEPT
                               ![user_id] = body.password[1]]
                      ELSE lastPassword
                /\ userCache' = IF fails = 1 THEN userCache
                                ELSE Drop(userCache, user_id)
                /\ userListCache' = IF fails \in {1, 2} THEN userListCache
                                    ELSE invalidate_list(userListCache)
                /\ res' = [op |-> op, id |-> user_id, fails |-> fails,
                           status |-> IF fails \in {1, 2}
                                      THEN INTERNAL_SERVER_ERROR ELSE OK]
                /\ trace' = IF fails = 1
                            THEN <<"repo.update", "cache.invalidate">>
                            ELSE <<"repo.update", "cache.invalidate",
                                   "cache.invalidate_list">>
    /\ UNCHANGED nextUserId
    /\ UNCHANGED <<orderVars, productVars, authVars, auxVars>>

\* UserService.delete_user, on a stored user, the fails-th cache call raising
UserService_delete_user_redis(user_id, fails) ==
    /\ user_exists(user_id)
    /\ users' = Drop(users, user_id)
    /\ lastPassword' = Drop(lastPassword, user_id)
    /\ userCache' = IF fails = 1 THEN userCache ELSE Drop(userCache, user_id)
    /\ userListCache' = IF fails \in {1, 2} THEN userListCache
                        ELSE invalidate_list(userListCache)
    /\ res' = [op |-> "service.delete_user", id |-> user_id,
               fails |-> fails,
               status |-> IF fails \in {1, 2} THEN INTERNAL_SERVER_ERROR
                          ELSE OK]
    /\ trace' = IF fails = 1 THEN <<"repo.delete", "cache.invalidate">>
                ELSE <<"repo.delete", "cache.invalidate",
                       "cache.invalidate_list">>
    /\ UNCHANGED nextUserId
    /\ UNCHANGED <<orderVars, productVars, authVars, auxVars>>

\* the users and the update bodies of the cache runs
CacheUserBodies ==
    {[username |-> u, email |-> EmailOf(u), password |-> "secret1",
      role |-> KITCHEN, full_name |-> None] : u \in {"alice", "bob"}}

CacheUserUpdateBodies == {[full_name |-> Some("Alice")]}

CachePages == {<<0, 1>>, <<0, 2>>}

\* every service call succeeds at its cache calls
NextCache ==
    \/ \E dto \in CatalogueDTOs :
         ProductService_create_product(dto, CatalogueSize)
    \/ \E dto \in StampedOrderDTOs :
         OrderService_create_order(dto, ATTENDANT, "A000", MaxTotalOrders)
    \/ \E body \in CacheUserBodies :
         UserService_create_user(body, 1, MaxCached)
    \/ \E id \in DOMAIN orders :
         OrderService_update_order(id, [status |-> Some(COMPLETED)], KITCHEN)
    \/ \E id \in DOMAIN orders : OrderService_delete_order(id, ATTENDANT)
    \/ \E id \in DOMAIN users, body \in CacheUserUpdateBodies :
         UserService_update_user(id, body, 1, 0)
    \/ \E id \in DOMAIN users : UserService_delete_user_redis(id, 0)
    \/ \E id \in 1..MaxTotalOrders : OrderService_get_order_by_id(id)
    \/ \E id \in 1..MaxCached : UserService_get_user_by_id(id, 0)
    \/ \E id \in 1..CatalogueSize : ProductService_get_product_by_id(id, 0)
    \/ \E pg \in CachePages : OrderService_list_orders(pg[1], pg[2])
    \/ \E pg \in CachePages : UserService_list_users(pg[1], pg[2])

SpecCache == Init /\ [][NextCache]_vars

\* any cache call of a request may raise
NextCacheFailure ==
    \/ \E dto \in CatalogueDTOs :
         ProductService_create_product(dto, CatalogueSize)
    \/ \E dto \in StampedOrderDTOs :
         OrderService_create_order(dto, ATTENDANT, "A000", MaxTotalOrders)
    \/ \E body \in CacheUserBodies :
         UserService_create_user(body, 1, MaxCached)
    \/ \E id \in DOMAIN users, body \in CacheUserUpdateBodies,
          fails \in Fails :
         UserService_update_user(id, body, 1, fails)
    \/ \E id \in DOMAIN users, fails \in Fails :
         UserService_delete_user_redis(id, fails)
    \/ \E id \in 1..MaxTotalOrders, fails \in Fails :
         OrderService_get_order_by_id_redis(id, fails)
    \/ \E id \in 1..MaxCached, fails \in Fails :
         UserService_get_user_by_id(id, fails)
    \/ \E pg \in CachePages, fails \in Fails :
         OrderService_list_orders_redis(pg[1], pg[2], fails)

SpecCacheFailure == Init /\ [][NextCacheFailure]_vars

----------------------------------------------------------------------------
(* get_by_id and the single-item cache *)

GetOps == {"get_order_by_id", "service.get_user_by_id",
           "service.get_product_by_id"}

\* the single-item cache and the repository a get_by_id works on
SingleCacheOf(op, order_cache, user_cache, product_cache) ==
    CASE op = "get_order_by_id" -> order_cache
      [] op = "service.get_user_by_id" -> user_cache
      [] OTHER -> product_cache

RowsOf(op) ==
    CASE op = "get_order_by_id" -> orders
      [] op = "service.get_user_by_id" -> users
      [] OTHER -> products

C25_Step ==
    res'.op \in GetOps =>
        LET id == res'.id
            cached == DOMAIN SingleCacheOf(res'.op, orderCache, userCache,
                                           productCache)
            cached_after == DOMAIN SingleCacheOf(res'.op, orderCache',
                                                 userCache', productCache')
            stored == DOMAIN RowsOf(res'.op)
        IN  /\ (id \notin cached /\ id \in stored)
                  => (res'.status = OK /\ id \in cached_after)
            /\ (id \notin cached /\ id \notin stored)
                  => (res'.status = NOT_FOUND /\ id \notin cached_after)
            /\ (res.op = res'.op /\ res.id = id /\ res.status = OK)
                  => (res'.status = OK /\ trace' = <<"cache.get">>)

\* C25: for each service (User, Product, Order), a get_by_id that misses the
\* cache and finds the entity in the repository returns it and leaves it
\* stored in the single-item cache, so that an immediately following
\* get_by_id for the same id is a cache hit; if the repository has no such
\* entity, get_by_id fails with NotFound and caches nothing.
C25_GetPopulatesCache == [][C25_Step]_vars

----------------------------------------------------------------------------
(* A cache call that raises *)

CacheCallNames == {"cache.get", "cache.set", "cache.list", "cache.set_list",
                   "cache.invalidate", "cache.invalidate_list"}

\* the number of cache calls among the calls of a request
CacheCallsIn(tr) == Cardinality({i \in 1..Len(tr) : tr[i] \in CacheCallNames})

\* C27: a failing cache call makes the whole service operation fail at once
\* with that error, for reads and for mutations alike: the raising call is
\* the last call of the request, so there is no retry and no fall-through to
\* the repository (a cache error is not treated as a cache miss).
C27_CacheFailure ==
    ("fails" \in DOMAIN res /\ res.fails \in 1..CacheCallsIn(trace))
        => /\ res.status = INTERNAL_SERVER_ERROR
           /\ CacheCallsIn(trace) = res.fails
           /\ trace[Len(trace)] \in CacheCallNames

\* a read of a stored user whose cache lookup raised
C27_Witness_ReadFailed ==
    /\ res.op = "service.get_user_by_id"
    /\ res.fails = 1
    /\ res.status = INTERNAL_SERVER_ERROR
    /\ trace = <<"cache.get">>
    /\ res.id \in DOMAIN users

----------------------------------------------------------------------------
(* Invalidation after a mutation *)

OrderMutations == {"create_order", "update_order", "delete_order"}
UserMutations == {"service.create_user", "service.update_user",
                  "service.delete_user"}
ProductMutations == {"service.create_product"}

\* what a mutation of one entity leaves of the caches of its type: no list
\* page, no entry of the entity, the entries of the other entities
Invalidated(id, cache, list_cache, cache_after, list_cache_after) ==
    /\ list_cache_after = EmptyMap
    /\ id \notin DOMAIN cache_after
    /\ cache_after = Drop(cache, id)

C23_Step ==
    res'.status \in {OK, CREATED} =>
        /\ res'.op \in OrderMutations =>
              /\ Invalidated(res'.id, orderCache, orderListCache,
                             orderCache', orderListCache')
              /\ UNCHANGED <<userCache, userListCache, productCache,
                             productListCache>>
        /\ res'.op \in UserMutations =>
              /\ Invalidated(res'.id, userCache, userListCache,
                             userCache', userListCache')
              /\ UNCHANGED <<orderCache, orderListCache, productCache,
                             productListCache>>
        /\ res'.op \in ProductMutations =>
              /\ Invalidated(res'.id, productCache, productListCache,
                             productCache', productListCache')
              /\ UNCHANGED <<orderCache, orderListCache, userCache,
                             userListCache>>

\* C23: after any successful create, update or delete through a domain
\* service returns (no other request in flight), the cache of that entity
\* type holds no paginated list page for any (offset, limit) and no
\* single-item entry for the mutated id; single-item entries of other ids and
\* all entries of other entity types are left untouched.
C23_Invalidation == [][C23_Step]_vars

\* a user was deleted: no page of the user list is left, the entry of another
\* user, an entry of a product and a page of the order list are
C23_Witness_OthersKept ==
    /\ res.op = "service.delete_user"
    /\ res.status = OK
    /\ userListCache = EmptyMap
    /\ res.id \notin DOMAIN userCache
    /\ DOMAIN userCache # {}
    /\ DOMAIN productCache # {}
    /\ DOMAIN orderListCache # {}

----------------------------------------------------------------------------
(* Tokens and deleted users *)

\* the users a token was issued to
IssuedTo(token) == {it.uid : it \in {x \in issued : x.token = token}}

\* C29: a token issued to a user who is later deleted never authenticates a
\* request again, also after a new user with the same username is created: a
\* token only ever resolves to the user entity it was issued for.
C29_TokenBoundToUser ==
    (res.op = "get_current_user" /\ res.status = OK
                                 /\ res.token \in IssuedTokens)
        => res.id \in IssuedTo(res.token)

----------------------------------------------------------------------------
(* The last admin *)

\* PATCH /users bodies that set the role
RoleUpdateBodies == {[role |-> Some(KITCHEN)], [role |-> Some(ADMIN)],
                     [full_name |-> Some("Alice")]}

NextAdmin ==
    \/ \E body \in SetupBodies : create_first_user(body, 1, MaxUsers)
    \/ \E body \in AuthUserBodies, role \in StoredRoles :
         user_controller_create_user(body, 1, role, MaxUsers)
    \/ \E id \in 1..MaxUsers, body \in RoleUpdateBodies,
          role \in StoredRoles :
         user_controller_update_user(id, body, 1, role)
    \/ \E id \in 1..MaxUsers, role \in StoredRoles :
         user_controller_delete_user(id, role)
    \/ \E id \in 1..MaxUsers, role \in StoredRoles :
         user_controller_fetch_user_by_id(id, role)

SpecAdmin == Init /\ [][NextAdmin]_vars

Admins(rows) == {id \in DOMAIN rows : rows[id].role = ADMIN}

\* C30: once a user with role admin exists, every state reachable through
\* user update and delete operations still contains at least one admin user:
\* an admin cannot delete or demote the last remaining admin (including
\* itself), so user management never becomes unreachable.
C30_AdminRemains == [][Admins(users) # {} => Admins(users') # {}]_vars

----------------------------------------------------------------------------
(* The transaction of BaseRepository.create *)

\* a rollback that keeps the rows the session had written before the failure
session_rollback_keeping_flushed(stored, tx) ==
    IF tx.flushed = 0 THEN stored
    ELSE Put(stored, tx.entity.id,
             [tx.entity EXCEPT
                 !.products = SubSeq(tx.entity.products, 1, tx.flushed - 1)])

\* session.rollback() in the except branch: the rows written since the
\* transaction began are discarded
session_rollback(stored, tx) == stored

\* session.commit(): the order row and the rows of its items (the relationship
\* "products" cascades the add) become visible together
session_commit(stored, tx) == Put(stored, tx.entity.id, tx.entity)

\* OrderService.create_order as far as session.add in repository.create
OrderService_create_order_add(p, dto, locator, cap) ==
    /\ p \notin DOMAIN flight
    /\ nextOrderId <= cap
    /\ ValidCreateOrderDTO(dto)
    /\ AllProductsResolve(dto.items)
    /\ LET new_order == OrderCreate(dto, nextOrderId, locator)
           items == BuildItems(dto.items)
           created == [new_order EXCEPT !.products = items,
                                        !.total = OrderTotal(items)]
       IN  /\ orderCache' = Drop(orderCache, new_order.id)
           /\ orderListCache' = invalidate_list(orderListCache)
           /\ nextOrderId' = nextOrderId + 1
           /\ flight' = Put(flight, p, [op |-> "create_order", dto |-> dto,
                                        entity |-> created, flushed |-> 0])
    /\ UNCHANGED <<orders, res, trace, leftPending>>
    /\ UNCHANGED <<productVars, userVars, authVars>>

\* the flush inside session.commit(): the INSERT of the order row, then of
\* one item row after the other, in the open transaction
BaseRepository_create_flush(p) ==
    /\ p \in DOMAIN flight
    /\ flight[p].op = "create_order"
    /\ flight[p].flushed < 1 + Len(flight[p].entity.products)
    /\ flight' = [flight EXCEPT ![p].flushed = @ + 1]
    /\ UNCHANGED <<orderVars, productVars, userVars, authVars, res, trace,
                   leftPending>>

\* session.commit() succeeds; create_order returns the order
BaseRepository_create_commit(p) ==
    /\ p \in DOMAIN flight
    /\ flight[p].op = "create_order"
    /\ flight[p].flushed = 1 + Len(flight[p].entity.products)
    /\ orders' = session_commit(orders, flight[p])
    /\ res' = [op |-> "create_order", role |-> ATTENDANT,
               dto |-> flight[p].dto, status |-> CREATED,
               id |-> flight[p].entity.id, flushed |-> flight[p].flushed]
    /\ trace' = <<"product_repo.get_by_id", "cache.invalidate",
                  "cache.invalidate_list", "repo.create">>
    /\ flight' = Drop(flight, p)
    /\ UNCHANGED <<nextOrderId, orderCache, orderListCache, leftPending>>
    /\ UNCHANGED <<productVars, userVars, authVars>>

\* an INSERT or the commit raises (a constraint, a lost connection):
\* BaseRepository.create rolls back and raises again
BaseRepository_create_raise(p) ==
    /\ p \in DOMAIN flight
    /\ flight[p].op = "create_order"
    /\ orders' = session_rollback(orders, flight[p])
    /\ res' = [op |-> "create_order", role |-> ATTENDANT,
               dto |-> flight[p].dto, status |-> INTERNAL_SERVER_ERROR,
               id |-> flight[p].entity.id, flushed |-> flight[p].flushed]
    /\ trace' = <<"product_repo.get_by_id", "cache.invalidate",
                  "cache.invalidate_list", "repo.create">>
    /\ flight' = Drop(flight, p)
    /\ UNCHANGED <<nextOrderId, orderCache, orderListCache, leftPending>>
    /\ UNCHANGED <<productVars, userVars, authVars>>

\* orders of one item and of two
TransactionOrderDTOs ==
    {[items |-> <<OrderItemDTO(1, 1, 3)>>, notes |-> None],
     [items |-> <<OrderItemDTO(1, 1, 3), OrderItemDTO(1, 2, 3)>>,
      notes |-> None]}

\* PATCH /products bodies: a null name (refused by the column), a new price
TransactionProductUpdates == {[name |-> None], [price |-> Some(5)]}

NextTransaction ==
    \/ \E dto \in CatalogueDTOs :
         product_controller_create_product(dto, ADMIN, CatalogueSize)
    \/ \E id \in DOMAIN products, dto \in TransactionProductUpdates :
         product_controller_update_product(id, dto, ADMIN)
    \/ \E p \in FlightIds, dto \in TransactionOrderDTOs :
         OrderService_create_order_add(p, dto, "A000", MaxOrders)
    \/ \E p \in FlightIds : BaseRepository_create_flush(p)
    \/ \E p \in FlightIds : BaseRepository_create_commit(p)
    \/ \E p \in FlightIds : BaseRepository_create_raise(p)
    \/ \E id \in DOMAIN orders :
         OrderService_update_order(id, [status |-> Some(COMPLETED)], KITCHEN)
    \/ \E id \in DOMAIN orders : OrderService_delete_order(id, ATTENDANT)
    \/ \E body \in AuthUserBodies :
         user_controller_create_user(body, 1, ADMIN, MaxStamped + 1)
    \/ \E id \in DOMAIN users :
         user_controller_update_user(id, [email |-> Some(EmailOf("bob"))], 1,
                                     ADMIN)

SpecTransaction == Init /\ [][NextTransaction]_vars

\* the request ended with an error raised by a repository write
RepositoryFailed(r, tr) ==
    /\ r.status = INTERNAL_SERVER_ERROR
    /\ tr # <<>>
    /\ tr[Len(tr)] \in {"repo.create", "repo.update", "repo.delete"}

C26_Step ==
    /\ \A p \in DOMAIN flight' :
          flight'[p].op = "create_order"
              => flight'[p].entity.id \notin DOMAIN orders'
    /\ \A id \in (DOMAIN orders') \ (DOMAIN orders) :
          /\ res'.op = "create_order"
          /\ res'.id = id
          /\ orders'[id].products = BuildItems(res'.dto.items)
    /\ \A id \in (DOMAIN orders') \cap (DOMAIN orders) :
          orders'[id].products = orders[id].products
    /\ RepositoryFailed(res', trace')
          => (orders' = orders /\ products' = products /\ users' = users)

====
